---- MODULE Spec2Model ----
(***************************************************************************)
(* A model of pipeline/pl.py (python-pipeline 0.8.1, Python 3): the        *)
(* Pipeline container, the Step state machine with its pretest / donetest  *)
(* gates, and serial / parallel fan-out over substeps.                     *)
(*                                                                         *)
(* Every method is modelled as a relation: an operator that takes the      *)
(* world w (the Pipeline object, the persisted snapshot, the clock and a   *)
(* log of what the call did) and returns the SET of possible outcomes      *)
(* [w, exc, ret]: the world after the call, the exception it raised ("" =  *)
(* it returned) and its return value.  The choices inside a call are the   *)
(* results of the user's predicates and units of work.                     *)
(***************************************************************************)
EXTENDS Integers, Sequences, FiniteSets, TLC

VARIABLES
    steps,      \* Pipeline.steps: name -> Step
    order,      \* Pipeline.order: tuple of names
    current,    \* Pipeline.current: a name, or None
    saved,      \* the pickle file: what the last save() wrote
    clock,      \* time.time()
    pool        \* the run_parallel in progress: its position, its
                \* multiprocessing.Pool and the jobs it dispatched

vars == <<steps, order, current, saved, clock, pool>>

(***************************************************************************)
(* Bounds                                                                  *)
(***************************************************************************)
MaxSteps == 2       \* most steps a pipeline holds
MaxFiles == 2       \* most files of a fan-out file list
MaxClock == 3       \* most executions of units of work in one behaviour
MaxThreads == 2     \* most worker processes of a pool

StepNames == {"a", "b"}
FileNames == <<"f1", "f2", "f3">>

None == <<>>                    \* Python's None; a value v is stored as <<v>>
Some(v) == <<v>>

(***************************************************************************)
(* Results of the user's code                                              *)
(***************************************************************************)
\* What a test predicate can do: return a value, or raise.
PredicateResults == {"True", "0", "False", "raise"}

\* The same with more of the values a predicate can return: None, 1, a
\* non-empty string.
PredicateValues == PredicateResults \cup {"None", "1", "text"}

\* What a unit of work can do: a callable returns or raises; a shell command
\* exits 0 or nonzero, or cannot be spawned at all.
UnitResults(kind) ==
    IF kind = "function" THEN {"ok", "raise"} ELSE {"ok", "nonzero", "raise"}

\* The units of work a behaviour runs are bounded: none starts at MaxClock.
UnitResultsAt(t, kind) == IF t < MaxClock THEN UnitResults(kind) ELSE {}

\* run_test: `out is True or out is 0`
TestSuccess(v) == v = "True" \/ v = "0"

(***************************************************************************)
(* Steps                                                                   *)
(***************************************************************************)
\* Step._test_test on a well-formed test: None for no test, False for a test
\* whose arguments hold the placeholder, True otherwise.
_test_test(test) ==
    CASE test = "absent"   -> "None"
      [] test = "template" -> "False"
      [] OTHER             -> "True"

\* sub_tests, as used by _create_substeps: the substep gets the test with the
\* placeholder replaced only when the container's test is a template.
sub_tests(test) == IF _test_test(test) = "False" THEN "ready" ELSE "absent"

\* Step.__init__: the run-state of a new step.
NewStep(kind, name, store, pretest, donetest, file_list, substeps) ==
    [ kind        |-> kind,
      name        |-> name,
      store       |-> store,
      pretest     |-> pretest,
      donetest    |-> donetest,
      file_list   |-> file_list,
      steps       |-> substeps,
      done        |-> FALSE,
      failed      |-> FALSE,
      failed_pre  |-> FALSE,
      failed_done |-> FALSE,
      start_time  |-> None,
      end_time    |-> None,
      code        |-> None,
      out         |-> None,
      err         |-> None ]

\* Step._create_substeps: one substep per file, named after the file.
_create_substeps(kind, store, pretest, donetest, file_list) ==
    [ i \in 1..Len(file_list) |->
        NewStep(kind, file_list[i], store, sub_tests(pretest),
                sub_tests(donetest), None, None) ]

\* Function.__init__ / Command.__init__ with Step.__init__.
MakeStep(kind, name, store, pretest, donetest, file_list) ==
    NewStep(kind, name, store, pretest, donetest, file_list,
            IF file_list # None
            THEN _create_substeps(kind, store, pretest, donetest, file_list)
            ELSE None)

(***************************************************************************)
(* The world and paths into it                                             *)
(***************************************************************************)
\* A path names a step: <<name>> a step of the pipeline, <<name, i>> the
\* i-th substep of a container step.
GetStep(w, p) ==
    IF Len(p) = 1 THEN w.steps[p[1]] ELSE w.steps[p[1]].steps[p[2]]

\* setattr on the step at p: u maps field names to new values.
SetAttrs(w, p, u) ==
    LET upd(s) == [k \in DOMAIN s |-> IF k \in DOMAIN u THEN u[k] ELSE s[k]]
    IN  IF Len(p) = 1
        THEN [w EXCEPT !.steps[p[1]] = upd(@)]
        ELSE [w EXCEPT !.steps[p[1]].steps[p[2]] = upd(@)]

Snapshot(w) == [steps |-> w.steps, order |-> w.order, current |-> w.current]

\* A variant of save that writes nothing.
save_nothing(w) == w

\* Pipeline.save (and Step.save, which calls it): pickle the whole pipeline.
save(w) == [w EXCEPT !.saved = Snapshot(w)]

\* time.time()
Now(w) == w.clock

Log(w, e) == [w EXCEPT !.log = Append(@, e)]

Returned(w, ret) == [w |-> w, exc |-> "", ret |-> ret]
Raised(w, exc)   == [w |-> w, exc |-> exc, ret |-> FALSE]

(***************************************************************************)
(* Test gates                                                              *)
(***************************************************************************)
\* Step.run_test when the predicate of `test` ("pretest" / "donetest") does v:
\* success is `out is True or out is 0`.  A raising predicate raises out of
\* run_test whatever raise_on_fail says.
TestOutcome(w, p, test, raise_on_fail, v) ==
    LET w1 == Log(w, [ev |-> test, path |-> p, t |-> Now(w),
                      res |-> IF TestSuccess(v) THEN "pass" ELSE "fail"])
    IN  IF v = "raise" THEN Raised(w1, "PredicateError")
        ELSE IF TestSuccess(v) THEN Returned(w1, TRUE)
        ELSE IF raise_on_fail THEN Raised(save(w1), "FailedTest")
        ELSE Returned(save(w1), FALSE)

\* Step.run_test: evaluate the predicate of `test`.
run_test(w, p, test, raise_on_fail) ==
    { TestOutcome(w, p, test, raise_on_fail, v) : v \in PredicateResults }

\* A variant of DoneTestFailed that fails the step whatever the caller asks.
DoneTestFailed_always_failing(fail_step_on_error) ==
    [done |-> FALSE, failed |-> TRUE, failed_done |-> TRUE]

\* The attributes run_done_test sets when the donetest fails.
DoneTestFailed(fail_step_on_error) ==
    IF fail_step_on_error
    THEN [done |-> FALSE, failed |-> TRUE, failed_done |-> TRUE]
    ELSE [done |-> FALSE, failed_done |-> TRUE]

\* Step.run_done_test
run_done_test(w, p, fail_step_on_error, raise_on_fail) ==
    LET self == GetStep(w, p)
    IN  IF self.donetest = "absent" THEN {Raised(w, "StepError")}
        ELSE IF _test_test(self.donetest) # "True" THEN {Returned(w, FALSE)}
        ELSE { IF r.exc # ""
               THEN LET w1 == save(SetAttrs(r.w, p,
                                            DoneTestFailed(fail_step_on_error)))
                    IN  IF raise_on_fail THEN Raised(w1, r.exc)
                                         ELSE Returned(w1, FALSE)
               ELSE IF r.ret
               THEN Returned(save(SetAttrs(r.w, p,
                        [done |-> TRUE, failed |-> FALSE,
                         failed_done |-> FALSE])), TRUE)
               ELSE Returned(save(SetAttrs(r.w, p,
                        DoneTestFailed(fail_step_on_error))), FALSE)
               : r \in run_test(w, p, "donetest", raise_on_fail) }

\* Step.run_pre_test
run_pre_test(w, p, raise_on_fail) ==
    LET self == GetStep(w, p)
    IN  IF self.pretest = "absent" THEN {Raised(w, "StepError")}
        ELSE IF _test_test(self.pretest) # "True"
        THEN {IF raise_on_fail THEN Raised(w, "StepError")
                               ELSE Returned(w, FALSE)}
        ELSE { IF r.exc # ""
               THEN LET w1 == save(SetAttrs(r.w, p, [failed_pre |-> TRUE]))
                    IN  IF raise_on_fail THEN Raised(w1, r.exc)
                                         ELSE Returned(w1, FALSE)
               ELSE IF r.ret
               THEN Returned(save(SetAttrs(r.w, p, [failed_pre |-> FALSE])),
                             TRUE)
               ELSE Returned(save(SetAttrs(r.w, p, [failed_pre |-> TRUE])),
                             FALSE)
               : r \in run_test(w, p, "pretest", raise_on_fail) }

\* A variant of _pre_exec that evaluates the pretest but goes on whatever it
\* says (used to show that the abort on a failed pretest is load-bearing).
_pre_exec_ignoring_pretest(w, p) ==
    LET self == GetStep(w, p)
        pre  == IF _test_test(self.pretest) = "True"
                THEN run_pre_test(w, p, FALSE)
                ELSE {Returned(w, TRUE)}
    IN  UNION { IF _test_test(self.donetest) = "True"
                THEN { IF d.exc # "" THEN d ELSE Returned(d.w, TRUE)
                       : d \in run_done_test(r.w, p, FALSE, FALSE) }
                ELSE {Returned(r.w, TRUE)}
                : r \in pre }

\* Step._pre_exec: the pretest, then the donetest as a pre-check that never
\* fails the step.  Returns True unless the pretest returned False.
_pre_exec(w, p) ==
    LET self == GetStep(w, p)
        pre  == IF _test_test(self.pretest) = "True"
                THEN run_pre_test(w, p, TRUE)
                ELSE {Returned(w, TRUE)}
    IN  UNION { IF r.exc # "" THEN {r}
                ELSE IF ~r.ret THEN {Returned(r.w, FALSE)}
                ELSE IF _test_test(self.donetest) = "True"
                THEN { IF d.exc # "" THEN d ELSE Returned(d.w, TRUE)
                       : d \in run_done_test(r.w, p, FALSE, FALSE) }
                ELSE {Returned(r.w, TRUE)}
                : r \in pre }

\* A variant of _post_exec whose donetest does not fail the step.
_post_exec_not_failing(w, p) ==
    LET self == GetStep(w, p)
    IN  IF _test_test(self.donetest) = "True"
        THEN { IF d.exc # "" THEN d ELSE Returned(d.w, TRUE)
               : d \in run_done_test(w, p, FALSE, TRUE) }
        ELSE {Returned(w, TRUE)}

\* Step._post_exec: the donetest after execution, failing the step.
_post_exec(w, p) ==
    LET self == GetStep(w, p)
    IN  IF _test_test(self.donetest) = "True"
        THEN { IF d.exc # "" THEN d ELSE Returned(d.w, TRUE)
               : d \in run_done_test(w, p, TRUE, TRUE) }
        ELSE {Returned(w, TRUE)}

(***************************************************************************)
(* Execution units                                                         *)
(***************************************************************************)
\* The unit of work runs: it is logged, with what the pickle file holds as
\* it starts, and the clock moves.
UnitRuns(w, p, u) ==
    [Log(w, [ev |-> "unit", path |-> p, t |-> Now(w), res |-> u,
             persisted |-> w.saved.steps])
        EXCEPT !.clock = @ + 1]

\* Function._execute: returns return_dict (in ret); self is not written.
Function_execute(w, p) ==
    { LET w1 == UnitRuns(w, p, u)
      IN  Returned(w1,
            IF u = "ok"
            THEN [start_time |-> Some(Now(w)), out |-> Some("value"),
                  done |-> TRUE, end_time |-> Some(Now(w1))]
            ELSE [start_time |-> Some(Now(w)), failed |-> TRUE,
                  EXCEPTION |-> "UnitError", end_time |-> Some(Now(w1))])
      : u \in UnitResultsAt(Now(w), "function") }

\* Command._execute: kind is 'get' when store is set, else 'check'.
Command_execute(w, p) ==
    LET self == GetStep(w, p)
    IN  { LET w1 == UnitRuns(w, p, u)
              t0 == Some(Now(w))
              t1 == Some(Now(w1))
          IN  Returned(w1,
                CASE u = "raise" ->
                       [start_time |-> t0, failed |-> TRUE,
                        EXCEPTION |-> "OSError", end_time |-> t1]
                  [] u = "ok" /\ self.store ->
                       [start_time |-> t0, code |-> Some(0),
                        out |-> Some("stdout"), err |-> Some(""),
                        end_time |-> t1, done |-> TRUE]
                  [] u = "ok" /\ ~self.store ->
                       [start_time |-> t0, code |-> Some(0),
                        end_time |-> t1, done |-> TRUE]
                  [] u = "nonzero" /\ self.store ->
                       [start_time |-> t0, code |-> Some(1),
                        out |-> Some(""), err |-> Some("stderr"),
                        end_time |-> t1, failed |-> TRUE]
                  [] OTHER ->
                       [start_time |-> t0, code |-> Some(1),
                        end_time |-> t1, failed |-> TRUE])
          : u \in UnitResultsAt(Now(w), "command") }

\* step._execute, by the class of the step
_execute(w, p) ==
    IF GetStep(w, p).kind = "function" THEN Function_execute(w, p)
                                       ELSE Command_execute(w, p)

\* A variant of _parse_return that does not save.
_parse_return_not_saving(w, p, return_dict) ==
    LET keys == DOMAIN return_dict \ {"EXCEPTION"}
        w1   == SetAttrs(w, p, [k \in keys |-> return_dict[k]])
    IN  IF "EXCEPTION" \in DOMAIN return_dict
        THEN Raised(w1, return_dict["EXCEPTION"])
        ELSE Returned(w1, TRUE)

\* Step._parse_return: setattr every key but EXCEPTION, save, then raise.
_parse_return(w, p, return_dict) ==
    LET keys == DOMAIN return_dict \ {"EXCEPTION"}
        w1   == save(SetAttrs(w, p, [k \in keys |-> return_dict[k]]))
    IN  IF "EXCEPTION" \in DOMAIN return_dict
        THEN Raised(w1, return_dict["EXCEPTION"])
        ELSE Returned(w1, TRUE)

(***************************************************************************)
(* Running one step                                                        *)
(***************************************************************************)
RECURSIVE Step_run(_, _, _)

\* A variant of Function.run without the delegation of a step that has a
\* file list to Step.run.
Function_run_own_unit(w, p, parallel) ==
    UNION {
        IF pre.exc # "" THEN {pre}
        ELSE IF ~pre.ret THEN {Returned(pre.w, TRUE)}
        ELSE UNION {
            LET ran == _parse_return(x.w, p, x.ret)
            IN  IF ran.exc # "" THEN {ran}
                ELSE { IF post.exc # "" THEN post
                       ELSE Returned(save(post.w), TRUE)
                       : post \in _post_exec(save(ran.w), p) }
            : x \in Function_execute(pre.w, p) }
        : pre \in _pre_exec(w, p) }

\* Function.run
Function_run(w, p, parallel) ==
    IF GetStep(w, p).file_list # None THEN Step_run(w, p, parallel)
    ELSE UNION {
        IF pre.exc # "" THEN {pre}
        ELSE IF ~pre.ret THEN {Returned(pre.w, TRUE)}
        ELSE UNION {
            LET ran == _parse_return(x.w, p, x.ret)
            IN  IF ran.exc # "" THEN {ran}
                ELSE { IF post.exc # "" THEN post
                       ELSE Returned(save(post.w), TRUE)
                       : post \in _post_exec(save(ran.w), p) }
            : x \in Function_execute(pre.w, p) }
        : pre \in _pre_exec(w, p) }

\* Command.run
Command_run(w, p, parallel) ==
    IF GetStep(w, p).file_list # None THEN Step_run(w, p, parallel)
    ELSE UNION {
        IF pre.exc # "" THEN {pre}
        ELSE UNION {
            LET ran == _parse_return(x.w, p, x.ret)
                w1  == save(ran.w)
            IN  IF ran.exc # "" THEN {ran}
                ELSE IF GetStep(w1, p).code # Some(0)
                THEN {Raised(save(w1), "CommandFailed")}
                ELSE { IF post.exc # "" THEN post
                       ELSE Returned(save(post.w), TRUE)
                       : post \in _post_exec(w1, p) }
            : x \in Command_execute(pre.w, p) }
        : pre \in _pre_exec(w, p) }

\* step.run(), by the class of the step
run(w, p, parallel) ==
    IF GetStep(w, p).kind = "function" THEN Function_run(w, p, parallel)
                                       ELSE Command_run(w, p, parallel)

(***************************************************************************)
(* Fan-out over substeps                                                   *)
(***************************************************************************)
Substep(p, i) == <<p[1], i>>

\* The end of Step.run_all and of Step.run_parallel: done only if every
\* substep is done, failed (and not done) if any substep failed.
RollUp(w, p) ==
    LET self    == GetStep(w, p)
        dones   == {self.steps[i].done : i \in DOMAIN self.steps}
        faileds == {self.steps[i].failed : i \in DOMAIN self.steps}
        w1 == IF FALSE \notin dones THEN SetAttrs(w, p, [done |-> TRUE]) ELSE w
        w2 == IF TRUE \in faileds
              THEN SetAttrs(w1, p, [done |-> FALSE, failed |-> TRUE])
              ELSE SetAttrs(w1, p, [failed |-> FALSE])
    IN  save(w2)

\* A variant of the loop of Step.run_all that goes on to the next substep
\* after a substep raised, and raises at the end.
RECURSIVE SerialLoop_not_stopping(_, _, _, _)
SerialLoop_not_stopping(w, p, i, force) ==
    IF i > Len(GetStep(w, p).steps) THEN {Returned(w, TRUE)}
    ELSE LET q == Substep(p, i)
             checked == IF GetStep(w, q).donetest # "absent" /\ ~force
                        THEN run_done_test(w, q, TRUE, FALSE)
                        ELSE {Returned(w, FALSE)}
         IN  UNION {
               UNION {
                 IF r.exc = ""
                 THEN SerialLoop_not_stopping(save(r.w), p, i + 1, force)
                 ELSE { Raised(l.w, r.exc)
                        : l \in SerialLoop_not_stopping(save(r.w), p, i + 1,
                                                        force) }
                 : r \in IF force \/ ~GetStep(c.w, q).done
                         THEN run(c.w, q, FALSE)
                         ELSE {Returned(c.w, TRUE)} }
               : c \in checked }

\* The loop of Step.run_all over self.steps, from the i-th substep on.
RECURSIVE SerialLoop(_, _, _, _)
SerialLoop(w, p, i, force) ==
    IF i > Len(GetStep(w, p).steps) THEN {Returned(w, TRUE)}
    ELSE LET q == Substep(p, i)
             checked == IF GetStep(w, q).donetest # "absent" /\ ~force
                        THEN run_done_test(w, q, TRUE, FALSE)
                        ELSE {Returned(w, FALSE)}
         IN  UNION {
               IF c.exc # "" THEN {c}
               ELSE UNION {
                      IF r.exc # "" THEN {r}
                      ELSE SerialLoop(save(r.w), p, i + 1, force)
                      : r \in IF force \/ ~GetStep(c.w, q).done
                              THEN run(c.w, q, FALSE)
                              ELSE {Returned(c.w, TRUE)} }
               : c \in checked }

\* Step.run_all
Step_run_all(w, p, force) ==
    LET self == GetStep(w, p)
    IN  IF self.file_list = None THEN run(w, p, FALSE)
        ELSE UNION {
          IF pre.exc # "" THEN {pre}
          ELSE IF ~pre.ret THEN {Returned(pre.w, TRUE)}
          ELSE UNION {
            IF chk.exc # "" THEN {chk}
            ELSE IF GetStep(chk.w, p).done /\ ~force
            THEN {Returned(chk.w, TRUE)}
            ELSE UNION {
              IF l.exc # "" THEN {l}
              ELSE LET w1 == SetAttrs(l.w, p, [end_time |-> Some(Now(l.w))])
                   IN  IF _test_test(self.donetest) = "True"
                       THEN { IF d.exc # "" THEN d
                              ELSE IF GetStep(d.w, p).done /\ ~force
                              THEN Returned(d.w, TRUE)
                              ELSE Returned(RollUp(d.w, p), TRUE)
                              : d \in run_done_test(w1, p, TRUE, TRUE) }
                       ELSE {Returned(RollUp(w1, p), TRUE)}
              : l \in SerialLoop(
                        SetAttrs(chk.w, p, [start_time |-> Some(Now(chk.w))]),
                        p, 1, force) }
            : chk \in IF _test_test(self.donetest) = "True"
                      THEN run_done_test(pre.w, p, FALSE, FALSE)
                      ELSE {Returned(pre.w, FALSE)} }
          : pre \in IF _test_test(self.pretest) = "True"
                    THEN run_pre_test(w, p, TRUE)
                    ELSE {Returned(w, TRUE)} }

\* The first loop of Step.run_parallel, from the i-th substep on: the donetest
\* pre-check, then pool.apply_async(step._execute).  A worker runs _execute on
\* its own copy of the substep and returns the return_dict; jobs collects
\* (substep, return_dict) in dispatch order.
RECURSIVE DispatchLoop(_, _, _, _, _)
DispatchLoop(w, p, i, force, jobs) ==
    IF i > Len(GetStep(w, p).steps) THEN {[w |-> w, jobs |-> jobs]}
    ELSE LET q == Substep(p, i)
             checked == IF GetStep(w, q).donetest # "absent" /\ ~force
                        THEN run_done_test(w, q, FALSE, FALSE)
                        ELSE {Returned(w, FALSE)}
         IN  UNION {
               IF force \/ ~GetStep(c.w, q).done
               THEN UNION { DispatchLoop(x.w, p, i + 1, force,
                               Append(jobs, [step |-> q, out |-> x.ret]))
                            : x \in _execute(c.w, q) }
               ELSE DispatchLoop(c.w, p, i + 1, force, jobs)
               : c \in checked }

\* The second loop of Step.run_parallel, from the j-th job on: job.get(),
\* step._parse_return(out) under `except Exception as e`, and then
\* `if step.failed: failed_jobs.append(e)`.  Python 3 unbinds e when the
\* except clause ends, so reading it raises UnboundLocalError.
RECURSIVE CollectLoop(_, _, _, _)
CollectLoop(w, jobs, j, exceptions) ==
    IF j > Len(jobs)
    THEN [w |-> w, exc |-> "", exceptions |-> exceptions]
    ELSE LET q  == jobs[j].step
             r  == _parse_return(w, q, jobs[j].out)
             ex == IF r.exc # "" THEN exceptions \cup {GetStep(w, q).name}
                                 ELSE exceptions
         IN  IF GetStep(r.w, q).failed
             THEN [w |-> r.w, exc |-> "UnboundLocalError", exceptions |-> ex]
             ELSE CollectLoop(r.w, jobs, j + 1, ex)

\* Step.run_parallel
Step_run_parallel(w, p, force) ==
    LET self == GetStep(w, p)
    IN  IF self.file_list = None THEN run(w, p, FALSE)
        ELSE UNION {
          IF pre.exc # "" THEN {pre}
          ELSE IF GetStep(pre.w, p).done /\ ~force
          THEN {Returned(pre.w, TRUE)}
          ELSE UNION {
            LET c  == CollectLoop(d.w, d.jobs, 1, {})
                w1 == save(SetAttrs(c.w, p, [end_time |-> Some(Now(c.w))]))
            IN  IF c.exc # "" THEN {Raised(c.w, c.exc)}
                ELSE IF c.exceptions # {}
                THEN {Raised([w1 EXCEPT !.reported = c.exceptions],
                             "MultiStepError")}
                ELSE IF _test_test(self.donetest) = "True"
                THEN { IF t.exc # "" THEN t
                       ELSE Returned(RollUp(t.w, p), TRUE)
                       : t \in run_done_test(w1, p, TRUE, TRUE) }
                ELSE {Returned(RollUp(w1, p), TRUE)}
            : d \in DispatchLoop(
                      SetAttrs(save(pre.w), p,
                               [start_time |-> Some(Now(pre.w))]),
                      p, 1, force, <<>>) }
          : pre \in _pre_exec(w, p) }

\* Step.run: only for a step with substeps.
Step_run(w, p, parallel) ==
    IF GetStep(w, p).file_list = None THEN {Raised(w, "StepError")}
    ELSE IF parallel THEN Step_run_parallel(w, p, FALSE)
    ELSE Step_run_all(w, p, FALSE)

(***************************************************************************)
(* The Pipeline                                                            *)
(***************************************************************************)
Min(S) == CHOOSE x \in S : \A y \in S : x <= y

\* Pipeline._get_current: the first step that is not done or is failed.
_get_current(w) ==
    LET open == { i \in DOMAIN w.order :
                    ~w.steps[w.order[i]].done \/ w.steps[w.order[i]].failed }
    IN  [w EXCEPT !.current = IF open = {} THEN None
                              ELSE Some(w.order[Min(open)])]

\* A variant of Pipeline.add that replaces a step of the same name.
add_overwriting(w, name, a) ==
    LET built == save(save(w))
        w1 == [built EXCEPT
                 !.steps = [n \in DOMAIN @ \cup {name} |->
                             IF n = name
                             THEN MakeStep(a.kind, name, a.store, a.pretest,
                                           a.donetest, a.file_list)
                             ELSE @[n]],
                 !.order = IF name \in DOMAIN w.steps THEN @
                           ELSE Append(@, name)]
    IN  {Returned(save(_get_current(w1)), TRUE)}

\* Pipeline.add with add_command / add_function.  Step.__init__ saves the
\* parent twice while the new step is not yet in Pipeline.steps.
add(w, name, a) ==
    LET built == save(save(w))
        w1 == IF name \notin DOMAIN w.steps
              THEN [built EXCEPT
                      !.steps = [n \in DOMAIN @ \cup {name} |->
                                  IF n = name
                                  THEN MakeStep(a.kind, name, a.store,
                                                a.pretest, a.donetest,
                                                a.file_list)
                                  ELSE @[n]],
                      !.order = Append(@, name)]
              ELSE w
    IN  {Returned(save(_get_current(w1)), TRUE)}

\* A variant of Pipeline.delete that forgets the order tuple.
delete_from_steps_only(w, name) ==
    LET w1 == IF name \in DOMAIN w.steps
              THEN [w EXCEPT !.steps = [n \in DOMAIN @ \ {name} |-> @[n]]]
              ELSE w
    IN  {Returned(save(w1), TRUE)}

\* Pipeline.delete
delete(w, name) ==
    LET w1 == IF name \in DOMAIN w.steps
              THEN [w EXCEPT !.steps = [n \in DOMAIN @ \ {name} |-> @[n]]]
              ELSE w
        w2 == IF \E i \in DOMAIN w1.order : w1.order[i] = name
              THEN [w1 EXCEPT !.order =
                      SelectSeq(@, LAMBDA n : n # name)]
              ELSE w1
    IN  {Returned(save(w2), TRUE)}

\* A variant of Pipeline.run that takes a name it does not know for 'current'.
Pipeline_run_unknown_as_current(w, step) ==
    LET w0 == _get_current(w)
        notdone == { i \in DOMAIN w0.order : ~w0.steps[w0.order[i]].done }
    IN  IF \E i \in DOMAIN w0.order : w0.order[i] = step
        THEN { IF r.exc # "" THEN Raised(save(r.w), r.exc)
               ELSE Returned(save(_get_current(r.w)), TRUE)
               : r \in run(w0, <<step>>, FALSE) }
        ELSE IF w0.order = <<>> \/ notdone = {} THEN {Returned(w0, TRUE)}
        ELSE { IF r.exc # "" THEN r
               ELSE Returned(save(_get_current(r.w)), TRUE)
               : r \in run(w0, <<w0.order[Min(notdone)]>>, FALSE) }

\* Pipeline.run
Pipeline_run(w, step) ==
    LET w0 == _get_current(w)
        notdone == { i \in DOMAIN w0.order : ~w0.steps[w0.order[i]].done }
    IN  IF step = "current"
        THEN IF w0.order = <<>> \/ notdone = {} THEN {Returned(w0, TRUE)}
             ELSE { IF r.exc # "" THEN r
                    ELSE Returned(save(_get_current(r.w)), TRUE)
                    : r \in run(w0, <<w0.order[Min(notdone)]>>, FALSE) }
        ELSE IF \E i \in DOMAIN w0.order : w0.order[i] = step
        THEN { IF r.exc # "" THEN Raised(save(r.w), r.exc)
               ELSE Returned(save(_get_current(r.w)), TRUE)
               : r \in run(w0, <<step>>, FALSE) }
        ELSE {Raised(w0, "PipelineError")}

\* A variant of the loop of Pipeline.run_all that goes on to the next step
\* after a step raised, and raises at the end.
RECURSIVE PipelineLoop_not_stopping(_, _, _, _)
PipelineLoop_not_stopping(w, i, skip_pre_donecheck, force) ==
    IF i > Len(w.order) THEN {Returned(w, TRUE)}
    ELSE UNION {
           IF r.exc = ""
           THEN PipelineLoop_not_stopping(r.w, i + 1, skip_pre_donecheck,
                                          force)
           ELSE { Raised(l.w, r.exc)
                  : l \in PipelineLoop_not_stopping(r.w, i + 1,
                                                    skip_pre_donecheck, force) }
           : r \in IF force \/ ~GetStep(w, <<w.order[i]>>).done
                   THEN run(w, <<w.order[i]>>, FALSE)
                   ELSE {Returned(w, TRUE)} }

\* The loop of Pipeline.run_all over the steps, from the i-th on.
RECURSIVE PipelineLoop(_, _, _, _)
PipelineLoop(w, i, skip_pre_donecheck, force) ==
    IF i > Len(w.order) THEN {Returned(w, TRUE)}
    ELSE LET p == <<w.order[i]>>
             checked == IF ~skip_pre_donecheck /\ ~force
                           /\ GetStep(w, p).donetest # "absent"
                        THEN run_done_test(w, p, FALSE, TRUE)
                        ELSE {Returned(w, GetStep(w, p).done)}
         IN  UNION {
               IF c.exc # "" THEN {c}
               ELSE IF ~force /\ c.ret
               THEN PipelineLoop(c.w, i + 1, skip_pre_donecheck, force)
               ELSE UNION {
                      IF r.exc # "" THEN {r}
                      ELSE PipelineLoop(r.w, i + 1, skip_pre_donecheck, force)
                      : r \in run(c.w, p, FALSE) }
               : c \in checked }

\* Pipeline.run_all
Pipeline_run_all(w, skip_pre_donecheck, force) ==
    { IF r.exc # "" THEN r ELSE Returned(save(_get_current(r.w)), TRUE)
      : r \in PipelineLoop(save(_get_current(w)), 1, skip_pre_donecheck,
                           force) }

\* restore_pipeline: pickle.load gives back the Pipeline object that was
\* dumped, with the attributes it had when it was dumped.
restore_pipeline(w) ==
    [w EXCEPT !.steps = w.saved.steps, !.order = w.saved.order,
              !.current = w.saved.current]

\* Pipeline.__init__ followed by the save of get_pipeline: a new, empty
\* pipeline written over the pickle file.
NewPipeline(w) ==
    save(save([w EXCEPT !.steps = <<>>, !.order = <<>>, !.current = None]))

\* A variant of get_pipeline that always makes a new session.
get_pipeline_anew(w) == {Returned(NewPipeline(w), TRUE)}

\* get_pipeline, called by a new process: the memory of the old process is
\* gone.  The pickle file exists from the construction of the pipeline on,
\* so os.path.isfile holds and the pipeline is restored.
get_pipeline(w) == {Returned(restore_pipeline(w), TRUE)}

(***************************************************************************)
(* Construction on concrete values                                         *)
(*                                                                         *)
(* The arguments of add are Python values, tagged with their type.  A      *)
(* string is the sequence of its words; the placeholder is one word.  A    *)
(* constructor is, like a method, the set of its outcomes.                 *)
(***************************************************************************)
REGEX == "<StepFile>"

\* A Python value: its type, its words if it is a string, its number if it
\* is an int, its items if it is a tuple, a list or a dict.
Value(t, s, n, x) == [t |-> t, s |-> s, n |-> n, x |-> x]

PyNone   == Value("None", <<>>, 0, <<>>)
Str(s)   == Value("str", s, 0, <<>>)
PyInt(n) == Value("int", <<>>, n, <<>>)
Tuple(x) == Value("tuple", <<>>, 0, x)
List(x)  == Value("list", <<>>, 0, x)
\* A dict is the sequence of its items, each a key and a value.
Dict(x)  == Value("dict", <<>>, 0, x)
Item(k, v) == Value("item", <<k>>, 0, <<v>>)
Callable == Value("function", <<"f">>, 0, <<>>)

\* bool(x)
Truthy(x) ==
    CASE x.t = "None"     -> FALSE
      [] x.t = "int"      -> x.n # 0
      [] x.t = "function" -> TRUE
      [] x.t = "str"      -> Len(x.s) > 0
      [] OTHER            -> Len(x.x) > 0

\* isinstance(arg, str) and REGEX in arg
HasPlaceholder(arg) ==
    arg.t = "str" /\ \E i \in DOMAIN arg.s : arg.s[i] = REGEX

\* A variant of re_sub that replaces the first occurrence only.
re_sub_first(arg, sub) ==
    Str([i \in DOMAIN arg.s |->
           IF arg.s[i] = REGEX /\ \A j \in 1..(i - 1) : arg.s[j] # REGEX
           THEN sub ELSE arg.s[i]])

\* step_regex.sub(sub, arg) on a string
re_sub(arg, sub) ==
    Str([i \in DOMAIN arg.s |-> IF arg.s[i] = REGEX THEN sub ELSE arg.s[i]])

Result(ret)  == [exc |-> "", ret |-> ret]
Failure(exc) == [exc |-> exc, ret |-> PyNone]

\* Step._test_test on any value: None for no test, False for a template, True
\* for a test that can be evaluated; StepError for a malformed test.
Step__test_test(test) ==
    IF test.t = "None" THEN Result("None")
    ELSE IF test.t = "tuple" /\ Len(test.x) # 2 THEN Failure("StepError")
    ELSE LET function_call == IF test.t = "tuple" THEN test.x[1] ELSE test
             args          == IF test.t = "tuple" THEN test.x[2] ELSE PyNone
         IN  IF function_call.t # "function" THEN Failure("StepError")
             ELSE IF /\ Truthy(args)
                     /\ \/ /\ args.t \in {"list", "tuple"}
                           /\ \E i \in DOMAIN args.x : HasPlaceholder(args.x[i])
                        \/ /\ args.t = "dict"
                           /\ \E i \in DOMAIN args.x :
                                HasPlaceholder(args.x[i].x[1])
             THEN Result("False")
             ELSE Result("True")

\* The class of a valid test, as the run-state of a step records it.
TestClass(test) ==
    CASE Step__test_test(test).ret = "None"  -> "absent"
      [] Step__test_test(test).ret = "False" -> "template"
      [] OTHER                               -> "ready"

\* sub_args: replace the placeholder in a str, in the items of a list or
\* tuple, or in the values of a dict; re.sub raises TypeError on an item that
\* is not a string, and any other type of args falls through to None.
sub_args(args, sub) ==
    CASE args.t = "str" -> Result(re_sub(args, sub))
      [] args.t \in {"tuple", "list"} ->
            IF \E i \in DOMAIN args.x : args.x[i].t # "str"
            THEN Failure("TypeError")
            ELSE Result(Tuple([i \in DOMAIN args.x |-> re_sub(args.x[i], sub)]))
      [] args.t = "dict" ->
            IF \E i \in DOMAIN args.x : args.x[i].x[1].t # "str"
            THEN Failure("TypeError")
            ELSE Result(Dict([i \in DOMAIN args.x |->
                                Item(args.x[i].s[1],
                                     re_sub(args.x[i].x[1], sub))]))
      [] OTHER -> Result(PyNone)

\* sub_tests on a concrete test: sub_args on the arguments of a tuple.
sub_tests_in(test, sub) ==
    IF test.t = "tuple"
    THEN LET args == sub_args(test.x[2], sub)
         IN  IF args.exc # "" THEN args
             ELSE Result(Tuple(<<test.x[1], args.ret>>))
    ELSE Result(test)

\* What `which` finds.
InPath == {"ls", "/usr/bin/ls"}

\* get_path: the absolute path of an executable, PathError if there is none.
get_path(executable) ==
    IF executable.s[1] \notin InPath THEN Failure("PathError")
    ELSE IF executable.s[1] = "ls" THEN Result(Str(<<"/usr/bin/ls">>))
    ELSE Result(executable)

\* build_file_list: the files of the directory that match the expression,
\* None when there is none.
build_file_list(file_regex) ==
    SelectSeq(SubSeq(FileNames, 1, MaxFiles),
              LAMBDA file : file_regex.s = <<"f.*">>)

\* An owner is named by its path: <<>> is the pipeline.  `if self.parent:` is
\* len(parent) for a Pipeline (its number of steps); a Step is always true.
ParentTruthy(w, parent) == parent # <<>> \/ Len(w.order) > 0

\* self.parent.save() in Step.__init__
SaveParent(w, parent) == IF ParentTruthy(w, parent) THEN save(w) ELSE w

RECURSIVE Command__init__(_, _)
RECURSIVE Function__init__(_, _)

\* Command(...) or Function(...), by the class of the step: the outcomes of
\* the constructor.
NewObject(w, kind, a) ==
    IF kind = "command" THEN Command__init__(w, a) ELSE Function__init__(w, a)

\* The arguments _create_substeps gives the constructor of the substep for
\* `file`, owned by `parent`: the placeholder replaced in args if there are
\* args, else in the command of a Command; StepError for a function without
\* args.
SubstepArgsFor(self, file, parent) ==
    LET donetest == IF Step__test_test(self.tests.donetest).ret = "False"
                    THEN sub_tests_in(self.tests.donetest, file)
                    ELSE Result(PyNone)
        pretest  == IF Step__test_test(self.tests.pretest).ret = "False"
                    THEN sub_tests_in(self.tests.pretest, file)
                    ELSE Result(PyNone)
        sub      == IF Truthy(self.args) THEN sub_args(self.args, file)
                    ELSE IF Truthy(self.command) /\ self.kind = "command"
                    THEN sub_args(self.command, file)
                    ELSE Failure("StepError")
    IN  IF sub.exc # "" THEN sub
        ELSE IF donetest.exc # "" THEN donetest
        ELSE IF pretest.exc # "" THEN pretest
        ELSE Result([command   |-> IF Truthy(self.args) THEN self.command
                                                        ELSE sub.ret,
                     args      |-> IF Truthy(self.args) THEN sub.ret
                                                        ELSE PyNone,
                     store     |-> self.store,
                     parent    |-> parent,
                     donetest  |-> donetest.ret,
                     pretest   |-> pretest.ret,
                     name      |-> file,
                     depends   |-> List(self.depends),
                     file_list |-> PyNone])

\* A variant of SubstepArgs that hands the substep the owner of the container.
SubstepArgs_owned_by_parent(self, file) ==
    SubstepArgsFor(self, file, self.parent)

\* _create_substeps passes parent=self.
SubstepArgs(self, file) == SubstepArgsFor(self, file, <<self.name>>)

\* Step._create_substeps: one substep per file, in the order of the file
\* list, appended to self.steps; the first error ends it.
RECURSIVE SubstepLoop(_, _, _, _)
SubstepLoop(w, self, i, substeps) ==
    IF i > Len(self.file_list) THEN {Returned(w, substeps)}
    ELSE LET a == SubstepArgs(self, self.file_list[i])
         IN  IF a.exc # "" THEN {Raised(w, a.exc)}
             ELSE UNION { IF r.exc # "" THEN {r}
                          ELSE SubstepLoop(r.w, self, i + 1,
                                           Append(substeps, r.ret))
                          : r \in NewObject(w, self.kind, a.ret) }

Step__create_substeps(w, self) ==
    IF self.file_list = None THEN {Raised(w, "StepError")}
    ELSE SubstepLoop(w, self, 1, <<>>)

\* Step.__init__: the attributes, the owner, depends kept only when it is a
\* str or a tuple, the tests validated, the owner saved, then the file list
\* and the substeps, and the owner saved again.
Step__init__(w, kind, a) ==
    LET depends  == CASE a.depends.t = "str"   -> <<a.depends>>
                      [] a.depends.t = "tuple" -> a.depends.x
                      [] OTHER                 -> <<>>
        donetest == IF Truthy(a.donetest) THEN a.donetest ELSE PyNone
        pretest  == IF Truthy(a.pretest) THEN a.pretest ELSE PyNone
        w1       == SaveParent(w, a.parent)
        files    == CASE a.file_list.t = "str" -> build_file_list(a.file_list)
                      [] OTHER                 ->
                            [i \in DOMAIN a.file_list.x |->
                               a.file_list.x[i].s[1]]
        self     == [k \in DOMAIN NewStep(kind, a.name, a.store, "absent",
                                          "absent", None, None)
                           \cup {"command", "args", "depends", "parent",
                                 "tests"} |->
                       CASE k = "command" -> a.command
                         [] k = "args"    -> a.args
                         [] k = "depends" -> depends
                         [] k = "parent"  -> a.parent
                         [] k = "tests"   -> [pretest  |-> pretest,
                                              donetest |-> donetest]
                         [] OTHER ->
                              NewStep(kind, a.name, a.store,
                                      TestClass(pretest), TestClass(donetest),
                                      IF Truthy(a.file_list) /\ files # <<>>
                                      THEN files ELSE None, None)[k]]
    IN  IF Step__test_test(donetest).exc # "" THEN {Raised(w, "StepError")}
        ELSE IF Step__test_test(pretest).exc # "" THEN {Raised(w, "StepError")}
        ELSE IF ~Truthy(a.file_list)
        THEN {Returned(SaveParent(w1, a.parent), self)}
        ELSE IF a.file_list.t \notin {"str", "list", "tuple"}
        THEN {Raised(w1, "StepError")}
        ELSE { IF made.exc # "" THEN made
               ELSE Returned(SaveParent(made.w, a.parent),
                             [self EXCEPT !.steps = made.ret])
               : made \in Step__create_substeps(w1, self) }

\* Function.__init__: the function must be callable (the StepError for it
\* reads self.logfile, which is not set yet: AttributeError); args that are
\* not a tuple become a tuple of one.
Function__init__(w, a) ==
    IF a.command.t # "function" THEN {Raised(w, "AttributeError")}
    ELSE Step__init__(w, "function",
            [a EXCEPT !.args = IF Truthy(a.args) /\ a.args.t # "tuple"
                               THEN Tuple(<<a.args>>) ELSE a.args])

\* Command.__init__: a command of one word is looked up in the path, a command
\* of several words takes no args, and args are a str, a list or a tuple.
Command__init__(w, a) ==
    IF a.command.t # "str" THEN {Raised(w, "AttributeError")}
    ELSE LET path == IF Len(a.command.s) = 1 THEN get_path(a.command)
                                             ELSE Result(a.command)
         IN  IF path.exc # "" THEN {Raised(w, path.exc)}
             ELSE IF Len(a.command.s) # 1 /\ Truthy(a.args)
             THEN {Raised(w, "StepError")}
             ELSE IF Truthy(a.args) /\ a.args.t \notin {"tuple", "list", "str"}
             THEN {Raised(w, "StepError")}
             ELSE Step__init__(w, "command", [a EXCEPT !.command = path.ret])

\* The arguments add_command and add_function give the constructor.
StepArgs(name, c) ==
    [command |-> c.command, args |-> c.args, store |-> c.store,
     parent |-> <<>>, donetest |-> c.donetest, pretest |-> c.pretest,
     name |-> name, depends |-> c.depends, file_list |-> c.file_list]

\* self.steps[name] = step; self.order = self.order + (name,)
Attach(w, name, step) ==
    [w EXCEPT !.steps = [n \in DOMAIN @ \cup {name} |->
                           IF n = name THEN step ELSE @[n]],
              !.order = Append(@, name)]

\* A variant of add_step that puts the name in the order before it builds the
\* step.
add_step_naming_first(w, kind, name, c) ==
    IF name \in DOMAIN w.steps THEN {Returned(save(_get_current(w)), TRUE)}
    ELSE { IF made.exc # ""
           THEN Raised([made.w EXCEPT !.order = Append(@, name)], made.exc)
           ELSE Returned(save(_get_current(Attach(made.w, name, made.ret))),
                         TRUE)
           : made \in NewObject(w, kind, StepArgs(name, c)) }

\* Pipeline.add_command and Pipeline.add_function: build the step with the
\* pipeline as owner, then put it in the map and its name in the order,
\* unless the name is taken; then recompute `current` and save.
add_step(w, kind, name, c) ==
    IF name \in DOMAIN w.steps THEN {Returned(save(_get_current(w)), TRUE)}
    ELSE { IF made.exc # "" THEN made
           ELSE Returned(save(_get_current(Attach(made.w, name, made.ret))),
                         TRUE)
           : made \in NewObject(w, kind, StepArgs(name, c)) }

\* Pipeline.add: a step needs a command, and the kind is found from it when
\* it is not given.
Pipeline_add(w, name, c) ==
    LET kind == IF Truthy(c.kind) THEN c.kind.s[1]
                ELSE IF c.command.t = "str" THEN "command" ELSE "function"
    IN  IF ~Truthy(c.command) THEN {Raised(w, "PipelineError")}
        ELSE IF kind \in {"command", "function"}
        THEN add_step(w, kind, name, c)
        ELSE {Raised(w, "PipelineError")}

\* The defaults of the keyword arguments of Pipeline.add.
Defaults ==
    [command |-> PyNone, args |-> PyNone, kind |-> Str(<<>>), store |-> TRUE,
     donetest |-> PyNone, pretest |-> PyNone, depends |-> PyNone,
     file_list |-> PyNone]

\* Pipeline.__setitem__: pipeline[name] = args, args a str (the command), a
\* tuple or list (command, args), or a dict of keyword arguments; then save.
Pipeline__setitem__(w, name, args) ==
    LET saved_after(S) == { IF r.exc # "" THEN r ELSE Returned(save(r.w), TRUE)
                            : r \in S }
    IN  CASE args.t = "str" ->
               saved_after(Pipeline_add(w, name,
                                        [Defaults EXCEPT !.command = args]))
          [] args.t \in {"tuple", "list"} ->
               IF Len(args.x) > 2 THEN {Raised(w, "TypeError")}
               ELSE saved_after(Pipeline_add(w, name,
                        [Defaults EXCEPT
                           !.command = IF Len(args.x) > 0 THEN args.x[1]
                                                          ELSE PyNone,
                           !.args    = IF Len(args.x) > 1 THEN args.x[2]
                                                          ELSE PyNone]))
          [] args.t = "dict" ->
               saved_after(Pipeline_add(w, name,
                   [k \in DOMAIN Defaults |->
                      IF \E i \in DOMAIN args.x : args.x[i].s[1] = k
                      THEN args.x[CHOOSE i \in DOMAIN args.x :
                                      args.x[i].s[1] = k].x[1]
                      ELSE Defaults[k]]))
          [] OTHER -> {Raised(w, "PipelineError")}

(***************************************************************************)
(* The state machine                                                       *)
(***************************************************************************)
\* The steps a caller adds: a plain step (no file list), or a container step
\* (a file list, and tests that may be templates for its substeps).
PlainInputs ==
    { a \in [kind : {"function", "command"}, store : BOOLEAN,
             pretest : {"absent", "ready"}, donetest : {"absent", "ready"},
             file_list : {None}] :
        a.kind = "function" => a.store }

FileLists == { SubSeq(FileNames, 1, n) : n \in 1..MaxFiles }
FanOutInputs ==
    { a \in [kind : {"function", "command"}, store : {TRUE},
             pretest : {"absent", "ready", "template"},
             donetest : {"absent", "ready", "template"},
             file_list : FileLists] :
        /\ Len(a.file_list) = MaxFiles
        /\ a.pretest # "absent" => a.donetest = a.pretest }

\* A pipeline of several steps is built from these.
AddInputs ==
    { a \in PlainInputs :
        /\ a.store
        /\ a.kind = "function" => a.pretest = "ready" /\ a.donetest = "ready"
        /\ a.kind = "command" => a.pretest = "absent" /\ a.donetest = "absent" }

World ==
    [steps |-> steps, order |-> order, current |-> current, saved |-> saved,
     clock |-> clock, log |-> <<>>, reported |-> {}]

\* The program is in the world w.
Becomes(w) ==
    /\ steps'   = w.steps
    /\ order'   = w.order
    /\ current' = w.current
    /\ saved'   = w.saved
    /\ clock'   = w.clock

\* A call ended as outcome r: the program is in the world r.w.
Ends(r) ==
    /\ r.w.clock <= MaxClock
    /\ Becomes(r.w)
    /\ UNCHANGED pool

\* No run_parallel has been called.
NoPool ==
    [pc |-> "idle", name |-> "", threads |-> 0, force |-> FALSE, next |-> 0,
     jobs |-> <<>>, queue |-> <<>>, workers |-> <<>>, results |-> <<>>,
     exceptions |-> {}, exc |-> ""]

Init ==
    /\ steps = <<>>
    /\ order = <<>>
    /\ current = None
    /\ saved = [steps |-> <<>>, order |-> <<>>, current |-> None]
    /\ clock = 0
    /\ pool = NoPool

\* pipeline.add(...), for a pipeline that holds fewer than `most` steps
Add(inputs, most) ==
    \E name \in StepNames, a \in inputs :
        /\ Len(order) < most
        /\ \E r \in add(World, name, a) : Ends(r)

Delete ==
    \E name \in StepNames :
        \E r \in delete(World, name) : Ends(r)

PipelineRun ==
    \E step \in StepNames \cup {"current"} :
        \E r \in Pipeline_run(World, step) :
            Ends(r)

PipelineRunAll ==
    \E skip_pre_donecheck \in BOOLEAN, force \in BOOLEAN :
        \E r \in Pipeline_run_all(World, skip_pre_donecheck, force) :
            Ends(r)

\* pipeline[name].run(parallel=parallel)
StepRun ==
    \E name \in DOMAIN steps, parallel \in BOOLEAN :
        \E r \in run(World, <<name>>, parallel) :
            Ends(r)

\* pipeline[name].run_all(force)
StepRunAll ==
    \E name \in DOMAIN steps, force \in BOOLEAN :
        \E r \in Step_run_all(World, <<name>>, force) :
            Ends(r)

\* pipeline[name].run_parallel(force=force)
StepRunParallel ==
    \E name \in DOMAIN steps, force \in BOOLEAN :
        \E r \in Step_run_parallel(World, <<name>>, force) :
            Ends(r)

\* pipeline[name].run_done_test(fail_step_on_error, raise_on_fail)
StepRunDoneTest ==
    \E name \in DOMAIN steps, fail_step_on_error \in BOOLEAN,
       raise_on_fail \in BOOLEAN :
        \E r \in run_done_test(World, <<name>>, fail_step_on_error,
                               raise_on_fail) :
            Ends(r)

\* pipeline[name].run_pre_test(raise_on_fail)
StepRunPreTest ==
    \E name \in DOMAIN steps, raise_on_fail \in BOOLEAN :
        \E r \in run_pre_test(World, <<name>>, raise_on_fail) :
            Ends(r)

\* pipeline = get_pipeline(), in a new process
GetPipeline ==
    \E r \in get_pipeline(World) : Ends(r)

\* A pipeline of up to MaxSteps plain steps.
Next ==
    \/ Add(AddInputs, MaxSteps)
    \/ Delete
    \/ PipelineRun
    \/ PipelineRunAll
    \/ StepRun
    \/ StepRunDoneTest
    \/ StepRunPreTest
Spec == Init /\ [][Next]_vars

\* A pipeline of one plain step, with every combination of gates.
NextStep ==
    \/ Add(PlainInputs, 1)
    \/ Delete
    \/ PipelineRun
    \/ PipelineRunAll
    \/ StepRun
    \/ StepRunAll
    \/ StepRunParallel
    \/ StepRunDoneTest
    \/ StepRunPreTest
SpecStep == Init /\ [][NextStep]_vars

\* A pipeline of one container step, run through its own methods.
NextFanOut ==
    \/ Add(FanOutInputs, 1)
    \/ Delete
    \/ StepRunAll
    \/ StepRunParallel
SpecFanOut == Init /\ [][NextFanOut]_vars

\* A pipeline of one step of any shape, plain or container, run through
\* every entry point.
NextAny ==
    \/ Add(PlainInputs \cup FanOutInputs, 1)
    \/ Delete
    \/ PipelineRun
    \/ PipelineRunAll
    \/ StepRun
    \/ StepRunAll
    \/ StepRunParallel
    \/ StepRunDoneTest
    \/ StepRunPreTest
    \/ GetPipeline
SpecAny == Init /\ [][NextAny]_vars

(***************************************************************************)
(* Building a pipeline from concrete arguments                             *)
(***************************************************************************)
\* The arguments a test tuple carries.
TestArgs ==
    { PyNone, Str(<<"x">>), Str(<<REGEX>>),
      Tuple(<<Str(<<"x">>)>>), Tuple(<<Str(<<"x">>), Str(<<REGEX>>)>>),
      List(<<Str(<<REGEX>>)>>), Tuple(<<Tuple(<<Str(<<REGEX>>)>>)>>),
      Tuple(<<PyInt(1), Str(<<REGEX>>)>>),
      Dict(<<Item("k", Str(<<"x">>))>>),
      Dict(<<Item("k", Str(<<REGEX>>))>>),
      Dict(<<Item(REGEX, Str(<<"x">>))>>),
      Dict(<<Item(REGEX, Str(<<REGEX>>))>>) }

\* What a caller passes as pretest or donetest: nothing, a callable, a pair
\* of a callable and arguments, and the malformed ones.
TestValues ==
    { PyNone, Callable, Str(<<"bob">>), PyInt(0), Str(<<>>), Tuple(<<>>),
      Tuple(<<Callable>>), Tuple(<<Callable, Str(<<"x">>), Str(<<"x">>)>>),
      List(<<Callable, Str(<<"x">>)>>), Tuple(<<Str(<<"bob">>), Str(<<"x">>)>>) }
    \cup { Tuple(<<Callable, args>>) : args \in TestArgs }

ArgValues ==
    { PyNone, Str(<<"x">>), Str(<<REGEX>>), Tuple(<<Str(<<"x">>)>>),
      Tuple(<<Str(<<"x">>), Str(<<REGEX>>)>>), List(<<Str(<<REGEX>>)>>),
      PyInt(5), Tuple(<<PyInt(5)>>), Dict(<<Item("k", Str(<<REGEX>>))>>) }

CommandValues ==
    { Callable, PyInt(5), Str(<<"ls">>), Str(<<"nosuch">>), Str(<<"ls", "x">>),
      Str(<<"ls", REGEX>>), Str(<<"ls", REGEX, REGEX>>) }

DependsValues ==
    { PyNone, Str(<<"d">>), Tuple(<<Str(<<"d">>), Str(<<"e">>)>>),
      List(<<Str(<<"d">>), Str(<<"e">>)>>) }

Files == List([i \in 1..MaxFiles |-> Str(<<FileNames[i]>>)])

FileListValues ==
    { PyNone, Files, Tuple(<<Str(<<FileNames[1]>>)>>), List(<<>>), PyInt(5),
      Str(<<"f.*">>), Str(<<"nomatch">>) }

\* pipeline.add(f, ('<StepFile>',)) and pipeline.add('ls <StepFile>')
BaseFunction ==
    [Defaults EXCEPT !.command = Callable, !.args = Tuple(<<Str(<<REGEX>>)>>)]
BaseCommand == [Defaults EXCEPT !.command = Str(<<"ls", REGEX>>)]

\* The calls of Pipeline.add: each varies some of the arguments of one of
\* the two calls above.
BuildInputs ==
    { [BaseFunction EXCEPT !.donetest = t, !.file_list = fl]
      : t \in TestValues, fl \in {PyNone, Files} }
    \cup { [BaseFunction EXCEPT !.pretest = t, !.file_list = fl]
           : t \in TestValues, fl \in {PyNone, Files} }
    \cup { [BaseCommand EXCEPT !.pretest = t, !.donetest = t, !.file_list = Files]
           : t \in TestValues }
    \cup { [Defaults EXCEPT !.command = c, !.args = a, !.file_list = fl]
           : c \in CommandValues, a \in ArgValues, fl \in {PyNone, Files} }
    \cup { [b EXCEPT !.store = s, !.depends = d, !.file_list = fl]
           : b \in {BaseFunction, BaseCommand}, s \in BOOLEAN,
             d \in DependsValues, fl \in {PyNone, Files} }
    \cup { [b EXCEPT !.file_list = fl]
           : b \in {BaseFunction, BaseCommand}, fl \in FileListValues }
    \cup { [BaseFunction EXCEPT !.command = c, !.kind = Str(<<k>>),
                                !.file_list = Files]
           : c \in {Callable, Str(<<"ls", REGEX>>), PyNone},
             k \in {"command", "function", "zzz"} }

\* The values of pipeline[name] = value
SetItemValues ==
    { Str(<<"ls">>), Str(<<"nosuch">>), PyInt(42), Tuple(<<>>),
      Tuple(<<Callable, Tuple(<<Str(<<"x">>)>>)>>),
      Tuple(<<Str(<<"ls">>), Str(<<"x">>)>>),
      List(<<Str(<<"ls">>)>>),
      Tuple(<<Callable, PyNone, Str(<<"x">>)>>),
      Dict(<<Item("command", Callable)>>),
      Dict(<<Item("command", Callable),
             Item("donetest", Str(<<"bob">>))>>) }

\* pipeline.add(...) with concrete arguments, for an empty pipeline
PipelineAdd ==
    \E name \in StepNames, c \in BuildInputs :
        /\ Len(order) < 1
        /\ \E r \in Pipeline_add(World, name, c) : Ends(r)

\* pipeline[name] = value, for an empty pipeline
SetItem ==
    \E name \in StepNames, value \in SetItemValues :
        /\ Len(order) < 1
        /\ \E r \in Pipeline__setitem__(World, name, value) : Ends(r)

\* The pipeline is built from concrete arguments, one step at a time.
NextBuild ==
    \/ PipelineAdd
    \/ SetItem
    \/ Delete

SpecBuild == Init /\ [][NextBuild]_vars

(***************************************************************************)
(* Reading an outcome                                                      *)
(***************************************************************************)
\* The results, in order of occurrence, are in the log of an outcome.
Events(log, ev, p) ==
    { i \in DOMAIN log : log[i].ev = ev /\ log[i].path = p }

UnitInvoked(log, p) == Events(log, "unit", p) # {}
UnitSucceeded(log, p) == \E i \in Events(log, "unit", p) : log[i].res = "ok"
UnitFailed(log, p) == \E i \in Events(log, "unit", p) : log[i].res # "ok"
TestFailed(log, test, p) ==
    \E i \in Events(log, test, p) : log[i].res = "fail"
TestAlwaysPassed(log, test, p) ==
    /\ Events(log, test, p) # {}
    /\ \A i \in Events(log, test, p) : log[i].res = "pass"

IsPlain(s) == s.file_list = None
IsContainer(s) == s.file_list # None
Substeps(n) == { <<n, i>> : i \in DOMAIN steps[n].steps }

\* Every step and substep of the pipeline.
Paths ==
    { <<n>> : n \in DOMAIN steps }
    \cup UNION { IF IsContainer(steps[n]) THEN Substeps(n) ELSE {}
                 : n \in DOMAIN steps }

\* The step has not been run or tested since it was added.
Fresh(s) ==
    s = MakeStep(s.kind, s.name, s.store, s.pretest, s.donetest, s.file_list)

\* The test gates raise one of these.
TestExceptions == {"FailedTest", "PredicateError"}

(***************************************************************************)
(* Step.run_parallel, step by step                                         *)
(*                                                                         *)
(* The coordinator is the process that called run_parallel; the workers    *)
(* are the processes of its multiprocessing.Pool.  pool.pc is the position *)
(* of the coordinator: "dispatch" in the first loop, "collect" in the      *)
(* second, "returned" or "raised" when the call is over.  pool.jobs are    *)
(* the substeps dispatched, in order; pool.queue the jobs no worker has    *)
(* taken yet; pool.workers what each worker process is executing;          *)
(* pool.results what job.get() has to give.                                *)
(***************************************************************************)
InProgress == {"dispatch", "collect"}

\* A variant of Pool that ignores `threads`, as Pool() does: one worker per
\* CPU.
Pool_all_cpus(threads) == [k \in 1..MaxThreads |-> None]

\* Pool(threads): `threads` worker processes, all idle.
Pool(threads) == [k \in 1..threads |-> None]

\* The coordinator is not inside run_parallel: pipeline.add(...)
PoolAdd ==
    /\ pool.pc \notin InProgress
    /\ Add(FanOutInputs, 1)

\* run_parallel(threads, force) up to the first loop: _pre_exec, the check of
\* done, the save, Pool(threads) and start_time.
ParallelBegin ==
    \E n \in DOMAIN steps, threads \in 1..MaxThreads, force \in BOOLEAN :
        /\ pool.pc \notin InProgress
        /\ IsContainer(steps[n])
        /\ clock + Len(steps[n].steps) <= MaxClock
        /\ \E pre \in _pre_exec(World, <<n>>) :
            LET called == [NoPool EXCEPT !.name = n, !.threads = threads,
                                         !.force = force]
            IN  IF pre.exc # ""
                THEN /\ Becomes(pre.w)
                     /\ pool' = [called EXCEPT !.pc = "raised",
                                               !.exc = pre.exc]
                ELSE IF GetStep(pre.w, <<n>>).done /\ ~force
                THEN /\ Becomes(pre.w)
                     /\ pool' = [called EXCEPT !.pc = "returned"]
                ELSE /\ Becomes(SetAttrs(save(pre.w), <<n>>,
                                   [start_time |-> Some(Now(pre.w))]))
                     /\ pool' = [called EXCEPT !.pc = "dispatch", !.next = 1,
                                               !.workers = Pool(threads)]

\* One turn of the first loop: the donetest pre-check of the substep, then
\* jobs.append((step, pool.apply_async(step._execute))), which does not wait.
Dispatch ==
    /\ pool.pc = "dispatch"
    /\ LET p == <<pool.name>>
           q == Substep(p, pool.next)
           checked == IF GetStep(World, q).donetest # "absent" /\ ~pool.force
                      THEN run_done_test(World, q, FALSE, FALSE)
                      ELSE {Returned(World, FALSE)}
       IN  \E c \in checked :
             LET execute == pool.force \/ ~GetStep(c.w, q).done
                 last    == pool.next = Len(GetStep(c.w, p).steps)
             IN  /\ Becomes(c.w)
                 /\ pool' = [pool EXCEPT
                      !.jobs    = IF execute THEN Append(@, q) ELSE @,
                      !.queue   = IF execute THEN Append(@, Len(pool.jobs) + 1)
                                             ELSE @,
                      !.results = IF execute THEN Append(@, None) ELSE @,
                      !.next    = IF last THEN 1 ELSE @ + 1,
                      !.pc      = IF last THEN "collect" ELSE @]

\* An idle worker process takes the oldest job of the queue and runs
\* step._execute: the unit of work starts.
WorkerStart ==
    \E k \in DOMAIN pool.workers :
        /\ pool.workers[k] = None
        /\ pool.queue # <<>>
        /\ \E x \in _execute(World, pool.jobs[Head(pool.queue)]) :
            /\ Becomes(x.w)
            /\ pool' = [pool EXCEPT
                 !.workers[k] = Some([job |-> Head(pool.queue), out |-> x.ret]),
                 !.queue = Tail(@)]

\* The unit of work is over: the worker sends the return_dict back and is
\* idle again.
WorkerFinish ==
    \E k \in DOMAIN pool.workers :
        /\ pool.workers[k] # None
        /\ pool' = [pool EXCEPT
             !.workers[k] = None,
             !.results[pool.workers[k][1].job] = Some(pool.workers[k][1].out)]
        /\ UNCHANGED <<steps, order, current, saved, clock>>

\* A variant of Collect whose loop does not move on to the next job.
Collect_not_advancing ==
    /\ pool.pc = "collect"
    /\ pool.next <= Len(pool.jobs)
    /\ pool.results[pool.next] # None
    /\ LET q == pool.jobs[pool.next]
           r == _parse_return(World, q, pool.results[pool.next][1])
       IN  /\ Becomes(r.w)
           /\ pool' = IF GetStep(r.w, q).failed
                      THEN [pool EXCEPT !.pc = "raised",
                                        !.exc = "UnboundLocalError"]
                      ELSE pool

\* One turn of the second loop: out = job.get(), which waits for the result,
\* step._parse_return(out) under `except Exception as e`, and
\* `if step.failed: failed_jobs.append(e)`, where e is unbound.
Collect ==
    /\ pool.pc = "collect"
    /\ pool.next <= Len(pool.jobs)
    /\ pool.results[pool.next] # None
    /\ LET q  == pool.jobs[pool.next]
           r  == _parse_return(World, q, pool.results[pool.next][1])
           ex == IF r.exc # ""
                 THEN pool.exceptions \cup {GetStep(World, q).name}
                 ELSE pool.exceptions
       IN  /\ Becomes(r.w)
           /\ pool' = IF GetStep(r.w, q).failed
                      THEN [pool EXCEPT !.pc = "raised", !.exceptions = ex,
                                        !.exc = "UnboundLocalError"]
                      ELSE [pool EXCEPT !.next = @ + 1, !.exceptions = ex]

\* After the second loop: end_time, the save, MultiStepError if an exception
\* was collected, else the donetest of the container and the roll-up.
Finish ==
    /\ pool.pc = "collect"
    /\ pool.next > Len(pool.jobs)
    /\ LET p  == <<pool.name>>
           w1 == save(SetAttrs(World, p, [end_time |-> Some(Now(World))]))
       IN  IF pool.exceptions # {}
           THEN /\ Becomes(w1)
                /\ pool' = [pool EXCEPT !.pc = "raised",
                                        !.exc = "MultiStepError"]
           ELSE IF _test_test(GetStep(World, p).donetest) = "True"
           THEN \E t \in run_done_test(w1, p, TRUE, TRUE) :
                  IF t.exc # ""
                  THEN /\ Becomes(t.w)
                       /\ pool' = [pool EXCEPT !.pc = "raised", !.exc = t.exc]
                  ELSE /\ Becomes(RollUp(t.w, p))
                       /\ pool' = [pool EXCEPT !.pc = "returned"]
           ELSE /\ Becomes(RollUp(w1, p))
                /\ pool' = [pool EXCEPT !.pc = "returned"]

\* A pipeline of one container step, run with run_parallel.
NextPool ==
    \/ PoolAdd
    \/ ParallelBegin
    \/ Dispatch
    \/ WorkerStart
    \/ WorkerFinish
    \/ Collect
    \/ Finish
SpecPool == Init /\ [][NextPool]_vars

(***************************************************************************)
(* A pipeline of up to three steps                                         *)
(***************************************************************************)
MaxOrder == 3       \* most steps of a pipeline whose order is observed
OrderNames == {"a", "b", "c"}

\* Steps without tests.
OrderInputs ==
    { a \in PlainInputs :
        a.store /\ a.pretest = "absent" /\ a.donetest = "absent" }

\* pipeline.add(...) under one of three names
AddNamed ==
    \E name \in OrderNames, a \in OrderInputs :
        /\ Len(order) < MaxOrder
        /\ \E r \in add(World, name, a) : Ends(r)

\* pipeline.delete(name)
DeleteNamed ==
    \E name \in OrderNames :
        \E r \in delete(World, name) : Ends(r)

\* A pipeline of up to MaxOrder steps, added, deleted and run.
NextOrder ==
    \/ AddNamed
    \/ DeleteNamed
    \/ PipelineRun
    \/ PipelineRunAll
    \/ StepRun
SpecOrder == Init /\ [][NextOrder]_vars

(***************************************************************************)
(* Claims                                                                  *)
(***************************************************************************)
\* C1: a step (or substep) is never done and failed at the same time,
\* whatever sequence of operations the pipeline has been through.
C1_DoneFailedExclusive ==
    \A p \in Paths : ~(GetStep(World, p).done /\ GetStep(World, p).failed)

\* C2: running a plain step whose ready donetest succeeds does not invoke
\* its unit of work, and leaves the step done.
C2_DoneStepSkipsUnit ==
    \A n \in DOMAIN steps :
        IsPlain(steps[n]) /\ steps[n].donetest = "ready" =>
            \A r \in run(World, <<n>>, FALSE) :
                TestAlwaysPassed(r.w.log, "donetest", <<n>>) =>
                    /\ ~UnitInvoked(r.w.log, <<n>>)
                    /\ GetStep(r.w, <<n>>).done

\* The container's flags are the roll-up of its substeps' flags.
RolledUp(c) ==
    /\ c.done = (\A i \in DOMAIN c.steps : c.steps[i].done)
    /\ c.failed = (\E i \in DOMAIN c.steps : c.steps[i].failed)
    /\ c.failed => ~c.done

\* How a fan-out run of the container n can end, serial or parallel.
FanOutRuns(n) ==
    UNION { Step_run_all(World, <<n>>, force)
            \cup Step_run_parallel(World, <<n>>, force) : force \in BOOLEAN }

\* C3: when run_all or run_parallel of a container finishes, returning or
\* raising, the container's done is "every substep done", its failed is
\* "some substep failed", and failed excludes done.
C3_ContainerRollUp ==
    \A n \in DOMAIN steps :
        IsContainer(steps[n]) =>
            \A r \in FanOutRuns(n) : RolledUp(GetStep(r.w, <<n>>))

\* Two runs met the same environment: every unit and every test predicate
\* gave one result throughout both.
SameEnvironment(log1, log2) ==
    \A p \in Paths, ev \in {"unit", "pretest", "donetest"} :
        Cardinality({ log1[i].res : i \in Events(log1, ev, p) }
                    \cup { log2[i].res : i \in Events(log2, ev, p) }) <= 1

\* C4: for the same container and the same outcome of each unit, run_all and
\* run_parallel leave every substep with the same done, failed and out.
C4_SerialParallelAgree ==
    \A n \in DOMAIN steps :
        IsContainer(steps[n]) =>
            \A rs \in Step_run_all(World, <<n>>, FALSE),
               rp \in Step_run_parallel(World, <<n>>, FALSE) :
                SameEnvironment(rs.w.log, rp.w.log) =>
                    \A q \in Substeps(n) :
                        /\ GetStep(rs.w, q).done = GetStep(rp.w, q).done
                        /\ GetStep(rs.w, q).failed = GetStep(rp.w, q).failed
                        /\ GetStep(rs.w, q).out = GetStep(rp.w, q).out

\* The names of the substeps of n whose unit failed in the run that ended as r.
FailedInRun(r, n) ==
    { GetStep(World, q).name : q \in { x \in Substeps(n) :
                                         UnitFailed(r.w.log, x) } }

\* C5: a run_parallel in which some substep's unit failed raises one
\* aggregate error that reports exactly the substeps that failed in the run.
C5_AggregateNamesAllFailures ==
    \A n \in DOMAIN steps, force \in BOOLEAN :
        IsContainer(steps[n]) =>
            \A r \in Step_run_parallel(World, <<n>>, force) :
                FailedInRun(r, n) # {} =>
                    /\ r.exc = "MultiStepError"
                    /\ r.w.reported = FailedInRun(r, n)

\* The result of the execution logged as e was applied to its substep.
Applied(w, e) ==
    LET s == GetStep(w, e.path)
    IN  /\ s.start_time = Some(e.t)
        /\ s.end_time = Some(e.t + 1)
        /\ e.res = "ok" => s.done /\ s.out # None
        /\ e.res # "ok" => s.failed

\* C6: in run_parallel, when one dispatched substep's unit fails, the result
\* of every dispatched substep is still applied to its substep before
\* run_parallel returns or raises.
C6_AllResultsCollected ==
    \A n \in DOMAIN steps, force \in BOOLEAN :
        IsContainer(steps[n]) =>
            \A r \in Step_run_parallel(World, <<n>>, force) :
                FailedInRun(r, n) # {} =>
                    \A i \in DOMAIN r.w.log :
                        r.w.log[i].ev = "unit" => Applied(r.w, r.w.log[i])

\* C7: when a plain step with a ready pretest is run and the pretest fails,
\* the unit of work is not invoked, failed_pre is set, done is left as it
\* was (False stays False) and the test's error is raised to the caller.
C7_FailedPretestAborts ==
    \A n \in DOMAIN steps, parallel \in BOOLEAN :
        IsPlain(steps[n]) /\ steps[n].pretest = "ready" =>
            \A r \in run(World, <<n>>, parallel) :
                TestFailed(r.w.log, "pretest", <<n>>) =>
                    /\ ~UnitInvoked(r.w.log, <<n>>)
                    /\ GetStep(r.w, <<n>>).failed_pre
                    /\ GetStep(r.w, <<n>>).done = steps[n].done
                    /\ r.exc \in TestExceptions

\* A step that was never done is run and its pretest fails.
C7_Witness ==
    \E n \in DOMAIN steps :
        /\ IsPlain(steps[n]) /\ steps[n].pretest = "ready"
        /\ ~steps[n].done /\ ~steps[n].failed_pre
        /\ \E r \in run(World, <<n>>, FALSE) :
            /\ TestFailed(r.w.log, "pretest", <<n>>)
            /\ r.exc = "FailedTest"
            /\ GetStep(r.w, <<n>>).failed_pre
            /\ ~GetStep(r.w, <<n>>).done

\* The unit of p succeeded and the donetest of p failed after it.
DonetestFailedAfterUnit(log, p) ==
    \E i \in Events(log, "unit", p), j \in Events(log, "donetest", p) :
        i < j /\ log[i].res = "ok" /\ log[j].res = "fail"

\* C8: when the unit of a plain step succeeds and its ready donetest fails
\* afterwards, the run ends with failed_done and failed set, done unset, and
\* raises the test's failure.
C8_FailedDonetestFailsStep ==
    \A n \in DOMAIN steps, parallel \in BOOLEAN :
        IsPlain(steps[n]) /\ steps[n].donetest = "ready" =>
            \A r \in run(World, <<n>>, parallel) :
                DonetestFailedAfterUnit(r.w.log, <<n>>) =>
                    /\ GetStep(r.w, <<n>>).failed_done
                    /\ GetStep(r.w, <<n>>).failed
                    /\ ~GetStep(r.w, <<n>>).done
                    /\ r.exc \in TestExceptions

\* A step that had not failed runs its unit, and the donetest fails after it.
C8_Witness ==
    \E n \in DOMAIN steps :
        /\ IsPlain(steps[n]) /\ steps[n].donetest = "ready"
        /\ ~steps[n].failed /\ ~steps[n].failed_done
        /\ \E r \in run(World, <<n>>, FALSE) :
            /\ DonetestFailedAfterUnit(r.w.log, <<n>>)
            /\ r.exc = "FailedTest"
            /\ GetStep(r.w, <<n>>).failed
            /\ GetStep(r.w, <<n>>).failed_done

\* C9: when the unit of a step that has not run before fails (a command exits
\* nonzero, a callable raises), the run ends failed and not done, the exit
\* code and any captured out and err are stored on the step, and the failure
\* is raised: CommandFailed, or the callable's own error.
C9_FirstFailure ==
    \A n \in DOMAIN steps :
        IsPlain(steps[n]) /\ Fresh(steps[n]) =>
            \A r \in run(World, <<n>>, FALSE) :
                LET s == GetStep(r.w, <<n>>)
                    i == CHOOSE i \in Events(r.w.log, "unit", <<n>>) : TRUE
                    u == r.w.log[i].res
                IN  /\ UnitInvoked(r.w.log, <<n>>)
                    /\ \/ s.kind = "command" /\ u = "nonzero"
                       \/ s.kind = "function" /\ u = "raise"
                    => /\ s.failed /\ ~s.done
                       /\ s.kind = "command" =>
                            /\ s.code = Some(1)
                            /\ s.store => s.out # None /\ s.err # None
                            /\ r.exc = "CommandFailed"
                       /\ s.kind = "function" => r.exc = "UnitError"

\* C10: a step with no donetest whose previous run failed, run again with its
\* unit succeeding, ends done and not failed; a step with no donetest that
\* was done, run again with its unit failing, ends failed and not done.
C10_RerunOverwrites ==
    \A n \in DOMAIN steps :
        IsPlain(steps[n]) /\ steps[n].donetest = "absent" =>
            \A r \in run(World, <<n>>, FALSE) :
                LET s == GetStep(r.w, <<n>>)
                IN  /\ steps[n].failed /\ UnitSucceeded(r.w.log, <<n>>)
                        => s.done /\ ~s.failed
                    /\ steps[n].done /\ UnitFailed(r.w.log, <<n>>)
                        => ~s.done /\ s.failed

\* How Pipeline.run_all can end.
RunAllOutcomes ==
    UNION { Pipeline_run_all(World, skip_pre_donecheck, force)
            : skip_pre_donecheck \in BOOLEAN, force \in BOOLEAN }

\* Something was evaluated or executed for the step at p.
Touched(log, p) == \E i \in DOMAIN log : log[i].path = p

\* The steps after the i-th in insertion order are as they were before the
\* call that ended as r, and nothing of theirs was evaluated or executed.
LaterStepsUntouched(r, i) ==
    \A j \in DOMAIN order :
        j > i => /\ r.w.steps[order[j]] = steps[order[j]]
                 /\ ~Touched(r.w.log, <<order[j]>>)

\* C11: when Pipeline.run_all hits the first step that fails (its unit fails,
\* its pretest fails, or any error is raised for it), run_all raises and
\* every later step keeps exactly the run-state it had before the call.
C11_RunAllFailFast ==
    \A r \in RunAllOutcomes :
        /\ \A i \in DOMAIN order :
             \/ UnitFailed(r.w.log, <<order[i]>>)
             \/ TestFailed(r.w.log, "pretest", <<order[i]>>)
             => r.exc # "" /\ LaterStepsUntouched(r, i)
        /\ r.exc # "" =>
             \E i \in DOMAIN order :
                 Touched(r.w.log, <<order[i]>>) /\ LaterStepsUntouched(r, i)

\* run_all of two steps: the unit of the first fails, the second is left
\* never run and not failed.
C11_Witness ==
    /\ Len(order) = 2
    /\ ~steps[order[2]].failed /\ steps[order[2]].start_time = None
    /\ \E r \in Pipeline_run_all(World, FALSE, FALSE) :
         /\ UnitFailed(r.w.log, <<order[1]>>)
         /\ r.exc # ""
         /\ r.w.steps[order[1]].failed
         /\ ~r.w.steps[order[2]].failed
         /\ r.w.steps[order[2]].start_time = None

\* The place of a step in the insertion order.
IndexOf(name) == CHOOSE i \in DOMAIN order : order[i] = name

\* The donetest pre-check of run_all was the first thing done for the step
\* at p, and it did not hold.
PreCheckFailed(log, p) ==
    /\ Touched(log, p)
    /\ LET first == Min({ i \in DOMAIN log : log[i].path = p })
       IN  log[first].ev = "donetest" /\ log[first].res = "fail"

\* C12: Pipeline.run_all visits the steps in insertion order, a unit starting
\* only after every earlier step has finished; a step whose donetest does not
\* hold at the pre-check is executed rather than aborting the traversal; and
\* when run_all returns normally every step is done.
C12_RunAllTraversal ==
    \A r \in Pipeline_run_all(World, FALSE, FALSE) :
        /\ \A i, j \in DOMAIN r.w.log :
             i < j => IndexOf(r.w.log[i].path[1]) <= IndexOf(r.w.log[j].path[1])
        /\ \A n \in DOMAIN steps :
             /\ PreCheckFailed(r.w.log, <<n>>)
             /\ ~TestFailed(r.w.log, "pretest", <<n>>)
             => UnitInvoked(r.w.log, <<n>>)
        /\ r.exc = "" => \A n \in DOMAIN steps : r.w.steps[n].done

\* Every step a caller can add.
AnyInputs == PlainInputs \cup FanOutInputs

UnknownNames == StepNames \ { order[i] : i \in DOMAIN order }

\* C14: Pipeline.run(name) with a name that is not a step of the pipeline
\* raises PipelineError, evaluates and executes nothing, and leaves the
\* order, the steps and every step's run-state unchanged.
C14_RunUnknownStep ==
    \A name \in UnknownNames :
        \A r \in Pipeline_run(World, name) :
            /\ r.exc = "PipelineError"
            /\ r.w.log = <<>>
            /\ r.w.steps = steps
            /\ r.w.order = order

\* The pipeline holds a step that could be run, and another name is run.
C14_Witness ==
    /\ \E n \in DOMAIN steps : ~steps[n].done
    /\ \E name \in UnknownNames :
         \E r \in Pipeline_run(World, name) :
             r.exc = "PipelineError" /\ r.w.steps = steps

\* C15: Pipeline.run('current') executes exactly one step, the first in
\* insertion order that is not done or is failed (the step `current` names
\* after recomputation); when there is none it executes nothing and changes
\* no step.
C15_RunCurrent ==
    \A r \in Pipeline_run(World, "current") :
        LET cur == _get_current(World).current
        IN  IF cur = None
            THEN r.exc = "" /\ r.w.log = <<>> /\ r.w.steps = steps
            ELSE /\ Touched(r.w.log, cur)
                 /\ \A i \in DOMAIN r.w.log : r.w.log[i].path = cur
                 /\ \A n \in DOMAIN steps \ {cur[1]} : r.w.steps[n] = steps[n]

\* How a pipeline operation, or a step run directly, can end.
PipelineOperations ==
    UNION { add(World, name, a) : name \in StepNames, a \in AddInputs }
    \cup UNION { delete(World, name) : name \in StepNames }
    \cup UNION { Pipeline_run(World, step) : step \in StepNames \cup {"current"} }
    \cup RunAllOutcomes
    \cup UNION { run(World, <<n>>, FALSE) : n \in DOMAIN steps }

\* C16: after every completed pipeline operation (add, delete, Pipeline.run,
\* Pipeline.run_all, returning or raising) and after a step is run directly,
\* `current` is the first step in insertion order that is not done or is
\* failed, or None when there is none; it never names a removed step.
C16_CurrentRecomputed ==
    \A r \in PipelineOperations :
        /\ r.w.current = _get_current(r.w).current
        /\ r.w.current # None => r.w.current[1] \in DOMAIN r.w.steps

\* The name-to-step map and the order tuple of w describe the same steps.
WellFormed(w) ==
    /\ DOMAIN w.steps = { w.order[i] : i \in DOMAIN w.order }
    /\ \A i, j \in DOMAIN w.order : w.order[i] = w.order[j] => i = j
    /\ \A n \in DOMAIN w.steps : w.steps[n].name = n

\* C17: in every reachable state the keys of the name-to-step map are the
\* names in the order tuple, the order tuple has no duplicate, and every
\* step's name is its key; add (new or duplicate name), delete and the run
\* operations keep it so.
C17_StepsMatchOrder ==
    /\ WellFormed(World)
    /\ \A r \in PipelineOperations : WellFormed(r.w)

\* A pipeline of two steps, one of which has run, from which a step is
\* deleted and to which a step of an existing name is added.
C17_Witness ==
    /\ Len(order) = 2
    /\ \E n \in DOMAIN steps : steps[n].start_time # None
    /\ \E name \in DOMAIN steps :
         /\ \E r \in delete(World, name) : Len(r.w.order) = 1
         /\ \E a \in AddInputs : \E r \in add(World, name, a) :
                Len(r.w.order) = 2

\* C18: after every mutating call on a pipeline or one of its steps (add,
\* delete, run, run_all, Step.run, run_done_test, run_pre_test,
\* run_parallel), returning or raising, the persisted snapshot has the same
\* order and the same steps, with the same run-state of every step and
\* substep, as the pipeline in memory.
C18_SnapshotMatchesMemory ==
    /\ saved.order = order
    /\ saved.steps = steps

\* A container whose fan-out raised, one substep done and one failed, is in
\* the snapshot as it is in memory.
C18_Witness ==
    /\ saved.steps = steps
    /\ \E n \in DOMAIN steps :
         /\ IsContainer(steps[n])
         /\ \E i, j \in DOMAIN steps[n].steps :
              /\ steps[n].steps[i].done /\ ~steps[n].steps[i].failed
              /\ steps[n].steps[j].failed
              /\ saved.steps[n].steps[j].failed

\* In the run that ended as r, the unit logged at k started with the result
\* of the substep at q already in the pickle file: the record of q in the
\* file is the one q has in memory, with the timestamp and outcome of its
\* execution logged at k0.
RecordedBefore(r, k0, k) ==
    LET q == r.w.log[k0].path
        file == r.w.log[k].persisted
    IN  /\ q[1] \in DOMAIN file
        /\ q[2] \in DOMAIN file[q[1]].steps
        /\ file[q[1]].steps[q[2]] = GetStep(r.w, q)
        /\ file[q[1]].steps[q[2]].start_time = Some(r.w.log[k0].t)
        /\ r.w.log[k0].res = "ok" => file[q[1]].steps[q[2]].done

\* C19: in a serial fan-out (Step.run_all on a container), when the unit of a
\* substep starts, the persisted snapshot already records the result of
\* every substep that ran before it in this call.
C19_PersistedBetweenSubsteps ==
    \A n \in DOMAIN steps, force \in BOOLEAN :
        IsContainer(steps[n]) =>
            \A r \in Step_run_all(World, <<n>>, force) :
                \A k0, k \in DOMAIN r.w.log :
                    /\ k0 < k
                    /\ r.w.log[k0].ev = "unit" /\ r.w.log[k].ev = "unit"
                    /\ r.w.log[k0].path # r.w.log[k].path
                    => RecordedBefore(r, k0, k)

\* A serial fan-out in which the second substep's unit starts after the
\* first substep's unit succeeded.
C19_Witness ==
    \E n \in DOMAIN steps :
        /\ IsContainer(steps[n])
        /\ ~steps[n].steps[1].done
        /\ \E r \in Step_run_all(World, <<n>>, FALSE) :
             \E k0, k \in DOMAIN r.w.log :
                /\ k0 < k
                /\ r.w.log[k0].ev = "unit" /\ r.w.log[k0].path = <<n, 1>>
                /\ r.w.log[k].ev = "unit" /\ r.w.log[k].path = <<n, 2>>
                /\ r.w.log[k0].res = "ok"
                /\ r.w.log[k].persisted[n].steps[1].done

C21_TestEvaluation ==
    \A n \in DOMAIN steps :
        /\ \A test \in {"pretest", "donetest"}, v \in PredicateValues :
            steps[n][test] = "ready" =>
                LET r == TestOutcome(World, <<n>>, test, FALSE, v)
                IN  /\ r.exc = ""
                    /\ r.ret <=> v \in {"True", "0"}
        /\ steps[n].donetest = "ready" =>
            \A fail_step_on_error \in BOOLEAN :
                \A r \in run_done_test(World, <<n>>, fail_step_on_error, FALSE) :
                    /\ r.exc = ""
                    /\ r.ret <=> TestAlwaysPassed(r.w.log, "donetest", <<n>>)
        /\ steps[n].pretest = "ready" =>
            \A r \in run_pre_test(World, <<n>>, FALSE) :
                /\ r.exc = ""
                /\ r.ret <=> TestAlwaysPassed(r.w.log, "pretest", <<n>>)

\* No unit and no test predicate failed in the run recorded in log.
NothingFailed(log) ==
    \A i \in DOMAIN log : log[i].res \in {"ok", "pass"}

\* Every substep of the container c, and c itself, is done and not failed.
AllDone(c) ==
    /\ c.done /\ ~c.failed
    /\ \A i \in DOMAIN c.steps : c.steps[i].done /\ ~c.steps[i].failed

\* C24: when the unit of every substep of a container runs and succeeds (and
\* no test fails), run_parallel and run_all both end with every substep, and
\* the container, done and not failed.
C24_AllUnitsSucceed ==
    \A n \in DOMAIN steps :
        IsContainer(steps[n]) =>
            \A r \in FanOutRuns(n) :
                /\ NothingFailed(r.w.log)
                /\ \A q \in Substeps(n) : UnitSucceeded(r.w.log, q)
                => AllDone(GetStep(r.w, <<n>>))

\* Every way of running the step n through one of its entry points:
\* Function.run or Command.run (which hand a container to Step.run), run_all
\* and run_parallel, Pipeline.run and Pipeline.run_all.
EntryPoints(n) ==
    UNION { run(World, <<n>>, parallel) : parallel \in BOOLEAN }
    \cup FanOutRuns(n)
    \cup Pipeline_run(World, n)
    \cup RunAllOutcomes

\* No execution has set the step's own out, err or code.
NeverExecuted(s) == s.out = None /\ s.err = None /\ s.code = None

\* C30: a step with a fan-out file list never executes its own unit: through
\* every entry point only units of its substeps are invoked, and the
\* container's own out, err and code are never set.
C30_ContainerNeverExecutes ==
    \A n \in DOMAIN steps :
        IsContainer(steps[n]) =>
            /\ NeverExecuted(steps[n])
            /\ \A r \in EntryPoints(n) :
                /\ ~UnitInvoked(r.w.log, <<n>>)
                /\ \A i \in DOMAIN r.w.log :
                    r.w.log[i].ev = "unit" => r.w.log[i].path \in Substeps(n)
                /\ NeverExecuted(GetStep(r.w, <<n>>))

\* A container is run through the pipeline and the units of both of its
\* substeps run, their output stored on the substeps.
C30_Witness ==
    \E n \in DOMAIN steps :
        /\ IsContainer(steps[n])
        /\ \E r \in Pipeline_run(World, n) :
            /\ r.exc = ""
            /\ \A q \in Substeps(n) :
                UnitSucceeded(r.w.log, q) /\ GetStep(r.w, q).out # None
            /\ NeverExecuted(GetStep(r.w, <<n>>))

\* The predicate of a test: the first item of a tuple, else the test itself.
Predicate(test) ==
    IF test.t = "tuple" /\ Len(test.x) > 0 THEN test.x[1] ELSE test

\* A test that is given and malformed: a tuple whose length is not 2, or a
\* predicate that is not callable.
Malformed(test) ==
    /\ test.t # "None"
    /\ \/ test.t = "tuple" /\ Len(test.x) # 2
       \/ Predicate(test).t # "function"

\* C22: adding a step whose pretest or donetest is malformed (predicate not
\* callable, or a tuple whose length is not 2) raises StepError from the add.
C22_MalformedTestRejected ==
    \A name \in StepNames \ DOMAIN steps, c \in BuildInputs :
        Malformed(c.pretest) \/ Malformed(c.donetest) =>
            \A r \in Pipeline_add(World, name, c) : r.exc = "StepError"

\* The call that ended as r left the pipeline as it was: the same steps and
\* order, and a snapshot that is the one before the call or the pipeline
\* before the call.
LeftAsBefore(r) ==
    /\ r.w.steps = steps
    /\ r.w.order = order
    /\ r.w.saved \in {saved, Snapshot(World)}

\* C23: an add that fails with a construction error (an executable that is not
\* in the path, a malformed test, a fan-out that cannot be substituted, a
\* value of the wrong type in pipeline[name] = value) leaves the pipeline as
\* before: no step added, the order unchanged, no partly built step in the
\* snapshot.
C23_FailedAddLeavesPipeline ==
    \A name \in StepNames :
        /\ \A c \in BuildInputs :
            \A r \in Pipeline_add(World, name, c) :
                r.exc # "" => LeftAsBefore(r)
        /\ \A value \in SetItemValues :
            \A r \in Pipeline__setitem__(World, name, value) :
                r.exc # "" => LeftAsBefore(r)

\* A pipeline that holds a step, where each kind of failing add occurs: the
\* executable is not found, the test is malformed, the substeps of a function
\* without args cannot be made (after the pipeline was saved by the
\* constructor), and pipeline[name] = 42.
C23_Witness ==
    /\ Len(order) = 1
    /\ \E name \in StepNames \ DOMAIN steps :
        /\ \E r \in Pipeline_add(World, name,
                        [Defaults EXCEPT !.command = Str(<<"nosuch">>)]) :
              r.exc = "PathError"
        /\ \E r \in Pipeline_add(World, name,
                        [BaseFunction EXCEPT !.donetest = Str(<<"bob">>)]) :
              r.exc = "StepError"
        /\ \E r \in Pipeline_add(World, name,
                        [Defaults EXCEPT !.command = Callable,
                                         !.file_list = Files]) :
              r.exc = "StepError"
        /\ \E r \in Pipeline__setitem__(World, name, PyInt(42)) :
              r.exc = "PipelineError"

\* The strings of a value (a command, args, or the arguments of a test): the
\* value itself, or the strings of the items of a tuple or list and of the
\* values of a dict, at any depth.  The keys of a dict are not arguments.
RECURSIVE Strings(_)
Strings(value) ==
    CASE value.t = "str" -> {value}
      [] value.t \in {"tuple", "list", "dict", "item"} ->
            UNION { Strings(value.x[i]) : i \in DOMAIN value.x }
      [] OTHER -> {}

\* The arguments of a test.
TestArguments(test) ==
    IF test.t = "tuple" /\ Len(test.x) = 2 THEN test.x[2] ELSE PyNone

\* No placeholder is left in the command, the args or the arguments of the
\* tests of the step s.
Resolved(s) ==
    \A value \in {s.command, s.args, TestArguments(s.tests.pretest),
                  TestArguments(s.tests.donetest)} :
        \A string \in Strings(value) : ~HasPlaceholder(string)

NextBuildRun ==
    \/ PipelineAdd
    \/ SetItem
    \/ Delete
    \/ StepRunAll
    \/ StepRunParallel

SpecBuildRun == Init /\ [][NextBuildRun]_vars

\* The owner of the step at path p: the pipeline (<<>>) for a step of the
\* pipeline, the container for a substep.
Owner(p) == SubSeq(p, 1, Len(p) - 1)

\* C26: ownership is a tree: the parent of every step in the pipeline's map is
\* the pipeline, the parent of every substep is the container whose substep
\* list holds it; so no step is held by two owners.
C26_OwnershipTree ==
    \A p \in Paths : GetStep(World, p).parent = Owner(p)

\* A pipeline holds a container whose substeps were made by fan-out (their
\* owner is the container, not the pipeline).
C26_Witness ==
    \E n \in DOMAIN steps :
        /\ IsContainer(steps[n])
        /\ steps[n].parent = <<>>
        /\ Len(steps[n].steps) = 2
        /\ \A i \in DOMAIN steps[n].steps : steps[n].steps[i].parent = <<n>>

\* C27: _test_test returns False (a template) whenever a string among the
\* arguments of the test holds the placeholder -- a single string argument, a
\* string in a list or tuple at any depth, a value of a dict -- and not when
\* only a key of a dict holds it; and a template test of a container is never
\* evaluated on the container.
C27_TemplateClassification ==
    /\ \A test \in TestValues :
        Step__test_test(test).exc = "" /\ test.t = "tuple" =>
            (Step__test_test(test).ret = "False"
                <=> \E string \in Strings(TestArguments(test)) :
                        HasPlaceholder(string))
    /\ \A n \in DOMAIN steps, test \in {"pretest", "donetest"} :
        (\E string \in Strings(TestArguments(steps[n].tests[test])) :
            HasPlaceholder(string)) =>
            \A r \in run_done_test(World, <<n>>, FALSE, FALSE)
                     \cup run_pre_test(World, <<n>>, FALSE)
                     \cup FanOutRuns(n) :
                Events(r.w.log, test, <<n>>) = {}

\* The last argument of a command line: the last word of a string, the last
\* item of a tuple or list.
TrailingArgument(value) ==
    CASE value.t = "str" /\ Len(value.s) > 0 -> Str(<<value.s[Len(value.s)]>>)
      [] value.t \in {"tuple", "list"} /\ Len(value.x) > 0 ->
            value.x[Len(value.x)]
      [] OTHER -> PyNone

\* C28: when neither the args nor the command of a container holds the
\* placeholder, each substep gets its file path as a trailing argument, so
\* the substeps of two files never have the same command and args.
C28_FilePathAppended ==
    \A n \in DOMAIN steps :
        /\ IsContainer(steps[n])
        /\ \A string \in Strings(steps[n].command) \cup Strings(steps[n].args) :
              ~HasPlaceholder(string)
        => /\ \A i \in DOMAIN steps[n].steps :
                LET s == steps[n].steps[i]
                IN  TrailingArgument(IF Truthy(s.args) THEN s.args
                                                       ELSE s.command)
                        = Str(<<steps[n].file_list[i]>>)
           /\ \A i, j \in DOMAIN steps[n].steps :
                i # j => <<steps[n].steps[i].command, steps[n].steps[i].args>>
                            # <<steps[n].steps[j].command, steps[n].steps[j].args>>

\* C29: every substep has the store setting and the depends list of its
\* container, whether depends was given as a string, a tuple or a list.
C29_SubstepsInherit ==
    \A n \in DOMAIN steps :
        IsContainer(steps[n]) =>
            \A i \in DOMAIN steps[n].steps :
                /\ steps[n].steps[i].store = steps[n].store
                /\ steps[n].steps[i].depends = steps[n].depends

(***************************************************************************)
(* C31-C39                                                                 *)
(***************************************************************************)
\* In the log, the unit of q started only after a pretest of q passed, and
\* if the unit succeeded and q ends done, a donetest of q passed after it.
GatesApplied(r, q) ==
    LET log == r.w.log
        s   == GetStep(r.w, q)
    IN  /\ s.pretest = "ready" =>
            \A i \in Events(log, "unit", q) :
                \E j \in Events(log, "pretest", q) :
                    j < i /\ log[j].res = "pass"
        /\ s.donetest = "ready" =>
            \A i \in Events(log, "unit", q) :
                log[i].res = "ok" /\ s.done =>
                    \E j \in Events(log, "donetest", q) :
                        j > i /\ log[j].res = "pass"

\* C31: run_parallel applies the gates of run_all to each substep: the unit
\* of a substep with a pretest is executed only after the pretest passed, and
\* a substep with a donetest whose unit succeeded is done only if the donetest
\* passed after the execution.
C31_ParallelGates ==
    \A n \in DOMAIN steps :
        IsContainer(steps[n]) =>
            \A force \in BOOLEAN :
                \A r \in Step_run_parallel(World, <<n>>, force) :
                    \A q \in Substeps(n) : GatesApplied(r, q)

\* The jobs whose unit of work a worker process is executing.
Executing ==
    { pool.workers[k][1].job :
        k \in { k \in DOMAIN pool.workers : pool.workers[k] # None } }

\* A step of a worker process.
WorkerStep == WorkerStart \/ WorkerFinish

\* C32: while run_parallel(threads=k) is in progress at most k units of
\* substeps are executing; no step of a worker writes the coordinator's
\* pipeline, its steps or its pickle file (they change only when the
\* coordinator applies a result); and when run_parallel has returned
\* normally every job it dispatched has completed.
C32_PoolDiscipline ==
    /\ [](pool.pc \in InProgress => Cardinality(Executing) <= pool.threads)
    /\ [][WorkerStep => UNCHANGED <<steps, order, current, saved>>]_vars
    /\ [](pool.pc = "returned" =>
            /\ pool.queue = <<>>
            /\ Executing = {}
            /\ \A j \in DOMAIN pool.jobs : pool.results[j] # None)

\* run_parallel(threads=1) waits in job.get() while the one worker executes
\* the unit of the first substep and the second is still in the queue.
C32_Witness ==
    /\ pool.pc = "collect"
    /\ pool.threads = 1
    /\ Executing = {1}
    /\ pool.queue = <<2>>

\* The last execution of the unit of p in the log.
LastUnit(log, p) ==
    CHOOSE i \in Events(log, "unit", p) : \A j \in Events(log, "unit", p) : j <= i

\* The step s has the times of the execution that started at t: start_time
\* is t, end_time is set and not before it.
TimesOf(s, t) ==
    /\ s.start_time = Some(t)
    /\ s.end_time # None
    /\ s.start_time[1] <= s.end_time[1]

\* C33: after every call in which the unit of a step or substep was executed,
\* whether it succeeded, exited nonzero or raised, the step has start_time and
\* end_time set, start_time <= end_time, and both are those of its latest
\* execution.
C33_TimesOfLatestExecution ==
    \A n \in DOMAIN steps :
        \A r \in EntryPoints(n) :
            \A p \in Paths :
                UnitInvoked(r.w.log, p) =>
                    TimesOf(GetStep(r.w, p), r.w.log[LastUnit(r.w.log, p)].t)

\* The place of the name n in the tuple s.
Position(s, n) == CHOOSE i \in DOMAIN s : s[i] = n

Names(s) == { s[i] : i \in DOMAIN s }

\* The outcome r of delete(name) took out that one step: the others are in
\* the map with the record they had, and in the order tuple in the order
\* they were in.
TookOut(r, name) ==
    /\ DOMAIN r.w.steps = DOMAIN steps \ {name}
    /\ Names(r.w.order) = Names(order) \ {name}
    /\ Len(r.w.order) = Len(order) - 1
    /\ \A m \in DOMAIN r.w.steps : r.w.steps[m] = steps[m]
    /\ \A m1, m2 \in DOMAIN r.w.steps :
         Position(order, m1) < Position(order, m2)
         <=> Position(r.w.order, m1) < Position(r.w.order, m2)

\* The outcome r left the pipeline, and what the pickle file says of its
\* steps and their order, as they were.
NothingChanged(r) ==
    /\ r.w.steps = steps /\ r.w.order = order /\ r.w.current = current
    /\ r.w.saved.steps = saved.steps /\ r.w.saved.order = saved.order

\* How running the pipeline or one of its steps can end.
RunOutcomes ==
    UNION { Pipeline_run(World, step) : step \in OrderNames \cup {"current"} }
    \cup RunAllOutcomes
    \cup UNION { run(World, <<n>>, FALSE) : n \in DOMAIN steps }

\* C34: delete(name) takes exactly that step out of the map and of the order
\* tuple, keeps the order and the run-state of the others, and saves; delete
\* of a name that is not there raises nothing and changes nothing; add puts a
\* new name last, and no run removes or reorders a step.
C34_DeleteOnly ==
    /\ \A name \in OrderNames :
         \A r \in delete(World, name) :
            /\ r.exc = ""
            /\ r.w.saved.steps = r.w.steps /\ r.w.saved.order = r.w.order
            /\ IF name \in DOMAIN steps THEN TookOut(r, name)
                                        ELSE NothingChanged(r)
    /\ \A name \in OrderNames, a \in OrderInputs :
         \A r \in add(World, name, a) :
            r.w.order = IF name \in DOMAIN steps THEN order
                                                 ELSE Append(order, name)
    /\ \A r \in RunOutcomes :
         r.w.order = order /\ DOMAIN r.w.steps = DOMAIN steps

\* Of three steps, the last of which has run, the one in the middle is
\* deleted: the first and the last stay, in that order.
C34_Witness ==
    /\ Len(order) = 3
    /\ steps[order[3]].done
    /\ \E r \in delete(World, order[2]) :
         /\ r.w.order = <<order[1], order[3]>>
         /\ r.w.steps[order[3]].done

\* The two outcomes of run_done_test evaluated the donetest of p once, with
\* the same result.
SameVerdict(r1, r2, p, res) ==
    /\ Cardinality(Events(r1.w.log, "donetest", p)) = 1
    /\ Cardinality(Events(r2.w.log, "donetest", p)) = 1
    /\ \A i \in Events(r1.w.log, "donetest", p) : r1.w.log[i].res = res
    /\ \A i \in Events(r2.w.log, "donetest", p) : r2.w.log[i].res = res

\* The outcomes of run_done_test on p under the two policies of
\* fail_step_on_error, whatever raise_on_fail is.
Lenient(p) ==
    UNION { run_done_test(World, p, FALSE, raise_on_fail)
            : raise_on_fail \in BOOLEAN }
Strict(p) ==
    UNION { run_done_test(World, p, TRUE, raise_on_fail)
            : raise_on_fail \in BOOLEAN }

\* What run_done_test leaves when the donetest fails (soft leaves `failed`
\* as it was, hard sets it) and when it succeeds.
DoneTestEffects(p, soft, hard) ==
    /\ SameVerdict(soft, hard, p, "fail") =>
         /\ GetStep(soft.w, p).failed_done /\ ~GetStep(soft.w, p).done
         /\ GetStep(hard.w, p).failed_done /\ ~GetStep(hard.w, p).done
         /\ GetStep(soft.w, p).failed = GetStep(World, p).failed
         /\ GetStep(hard.w, p).failed
    /\ SameVerdict(soft, hard, p, "pass") =>
         \A r \in {soft, hard} :
            /\ GetStep(r.w, p).done
            /\ ~GetStep(r.w, p).failed
            /\ ~GetStep(r.w, p).failed_done

\* C35 as stated: a failed donetest sets failed_done and clears done; with
\* fail_step_on_error=False the failed flag stays as it was and with True it
\* is set, and the two policies leave the step in different states; a
\* successful donetest sets done and clears failed and failed_done.
C35_PoliciesDistinguishable ==
    \A p \in Paths :
        \A soft \in Lenient(p), hard \in Strict(p) :
            /\ DoneTestEffects(p, soft, hard)
            /\ SameVerdict(soft, hard, p, "fail") =>
                 GetStep(soft.w, p) # GetStep(hard.w, p)

\* C35 amended: the same effects, and the two policies leave the step in
\* different states exactly when the step was not failed before the call; a
\* step that was failed before ends in the same state under both.
C35_PoliciesDistinguishableUnlessFailed ==
    \A p \in Paths :
        \A soft \in Lenient(p), hard \in Strict(p) :
            /\ DoneTestEffects(p, soft, hard)
            /\ SameVerdict(soft, hard, p, "fail") =>
                 (GetStep(soft.w, p) # GetStep(hard.w, p)
                  <=> ~GetStep(World, p).failed)

\* The donetest of a step that is not failed fails under both policies: one
\* leaves it not failed, the other failed; and the donetest of a step that is
\* failed fails under both.
C35_Witness ==
    /\ \E p \in Paths :
         /\ ~GetStep(World, p).failed
         /\ \E soft \in Lenient(p), hard \in Strict(p) :
              /\ SameVerdict(soft, hard, p, "fail")
              /\ ~GetStep(soft.w, p).failed /\ GetStep(hard.w, p).failed
    /\ \E p \in Paths :
         /\ GetStep(World, p).failed
         /\ \E soft \in Lenient(p), hard \in Strict(p) :
              SameVerdict(soft, hard, p, "fail")

\* What the pickle file of the world w says of the step at p.
SavedStep(w, p) == GetStep([steps |-> w.saved.steps], p)

\* The worlds in which a crash can stop run() on the plain step at p between
\* the execution of the unit and the donetest of _post_exec: _pre_exec let
\* it through, and _parse_return has applied and saved the result of
\* _execute.
AfterUnit(p) ==
    UNION { { _parse_return(x.w, p, x.ret) : x \in _execute(pre.w, p) }
            : pre \in { pre \in _pre_exec(World, p) :
                          pre.exc = "" /\ pre.ret } }

\* In the log, a donetest of p passed after the last execution of its unit.
VerifiedSince(log, p) ==
    \E j \in Events(log, "donetest", p) :
        j > LastUnit(log, p) /\ log[j].res = "pass"

\* C36: the pickle file never says done of a step with a ready donetest
\* whose unit was executed and whose donetest has not passed since: not when
\* a call is over, and not at the point between the execution and the
\* donetest, where a crash would leave the file as it is.
C36_SnapshotNeverUnverified ==
    \A p \in Paths :
        GetStep(World, p).donetest = "ready" =>
            /\ IsPlain(GetStep(World, p)) =>
                 \A c \in AfterUnit(p) : ~SavedStep(c.w, p).done
            /\ \A r \in EntryPoints(p[1]) :
                 UnitInvoked(r.w.log, p) /\ SavedStep(r.w, p).done
                 => VerifiedSince(r.w.log, p)

\* C37: in every reachable state a step or substep that is done or failed
\* has start_time and end_time set, as Step.__str__ needs for get_runtime.
C37_TimesWhenDoneOrFailed ==
    \A p \in Paths :
        GetStep(World, p).done \/ GetStep(World, p).failed =>
            /\ GetStep(World, p).start_time # None
            /\ GetStep(World, p).end_time # None

\* In the log, the run of the substep at q raised: its pretest failed, its
\* unit failed, or its donetest failed after its unit had run.
SubstepRaised(log, q) ==
    \/ TestFailed(log, "pretest", q)
    \/ UnitFailed(log, q)
    \/ \E i \in Events(log, "unit", q), j \in Events(log, "donetest", q) :
         j > i /\ log[j].res = "fail"

\* The substeps of the container n after the i-th are as they were before
\* the call that ended as r, and nothing of theirs was evaluated or executed.
LaterSubstepsUntouched(r, n, i) ==
    \A j \in DOMAIN steps[n].steps :
        j > i => /\ GetStep(r.w, <<n, j>>) = GetStep(World, <<n, j>>)
                 /\ ~Touched(r.w.log, <<n, j>>)

\* C38: in Step.run_all the first substep whose run raises ends the fan-out:
\* run_all raises, and every later substep has no test evaluated, no unit
\* invoked, and the run-state it had before.
C38_SerialFanOutFailFast ==
    \A n \in DOMAIN steps :
        IsContainer(steps[n]) =>
            \A force \in BOOLEAN :
                \A r \in Step_run_all(World, <<n>>, force) :
                    \A i \in DOMAIN steps[n].steps :
                        SubstepRaised(r.w.log, <<n, i>>) =>
                            r.exc # "" /\ LaterSubstepsUntouched(r, n, i)

\* run_all of a container whose second substep is done from an earlier run:
\* the unit of the first substep fails, run_all raises and the second substep
\* is as it was.
C38_Witness ==
    \E n \in DOMAIN steps :
        /\ IsContainer(steps[n])
        /\ steps[n].steps[2].done
        /\ \E r \in Step_run_all(World, <<n>>, TRUE) :
             /\ UnitFailed(r.w.log, <<n, 1>>)
             /\ r.exc # ""
             /\ GetStep(r.w, <<n, 2>>) = steps[n].steps[2]

(***************************************************************************)
(* C39                                                                     *)
(***************************************************************************)
\* The scheduling of run_parallel when every unit of work and every test
\* terminates: the coordinator goes on through its two loops and the code
\* after them, the pool hands the oldest queued job to an idle worker, and a
\* unit of work that was started ends and sends its result back.
PoolFairness ==
    /\ WF_vars(Dispatch)
    /\ WF_vars(WorkerStart)
    /\ WF_vars(WorkerFinish)
    /\ WF_vars(Collect)
    /\ WF_vars(Finish)
SpecPoolFair == SpecPool /\ PoolFairness

\* The units of work the step n stands for: one per substep of a container.
UnitsOf(n) == IF IsContainer(steps[n]) THEN Len(steps[n].steps) ELSE 1

\* In the call that ended as r no unit of work was invoked twice and no step
\* was entered twice: a second entry would evaluate the pretest again.
OncePerCall(r) ==
    \A i, j \in DOMAIN r.w.log :
        /\ r.w.log[i].ev \in {"unit", "pretest"}
        /\ r.w.log[i].ev = r.w.log[j].ev
        /\ r.w.log[i].path = r.w.log[j].path
        => i = j

\* The call whose outcomes are rs ends, by returning or by raising, and
\* visits nothing twice.
EndsOnce(rs) ==
    /\ rs # {}
    /\ \A r \in rs : r.exc \in STRING /\ OncePerCall(r)

\* Pipeline.run_all, Step.run_all and Step.run_parallel, called now with
\* any arguments, end and visit nothing twice.
CallsEndOnce ==
    (\A n \in DOMAIN steps : clock + UnitsOf(n) <= MaxClock) =>
        /\ EndsOnce(RunAllOutcomes)
        /\ \A n \in DOMAIN steps : IsContainer(steps[n]) =>
            \A force \in BOOLEAN :
                /\ EndsOnce(Step_run_all(World, <<n>>, force))
                /\ EndsOnce(Step_run_parallel(World, <<n>>, force))

\* The job j of the run_parallel in progress is waiting in the queue.
Queued(j) == \E i \in DOMAIN pool.queue : pool.queue[i] = j

\* Every substep is dispatched at most once and every job is in one place:
\* waiting, executing, or executed with its result ready.
JobsOnce ==
    /\ \A i, j \in DOMAIN pool.jobs : pool.jobs[i] = pool.jobs[j] => i = j
    /\ \A i, j \in DOMAIN pool.queue : pool.queue[i] = pool.queue[j] => i = j
    /\ \A j \in DOMAIN pool.jobs :
        /\ Queued(j) \/ j \in Executing \/ pool.results[j] # None
        /\ ~(Queued(j) /\ j \in Executing)
        /\ ~(Queued(j) /\ pool.results[j] # None)
        /\ ~(j \in Executing /\ pool.results[j] # None)

\* C39: when every unit of work and every test terminates, Pipeline.run_all,
\* Step.run_all and Step.run_parallel terminate: a call visits each step and
\* each substep at most once, invokes each unit of work at most once, and
\* in the end either returns or raises.
C39_Termination ==
    /\ []CallsEndOnce
    /\ []JobsOnce
    /\ (pool.pc \in InProgress) ~> (pool.pc \in {"returned", "raised"})

\* run_parallel has returned after it dispatched both substeps and collected
\* both results.
C39_Witness ==
    /\ pool.pc = "returned"
    /\ Len(pool.jobs) = 2
    /\ \A j \in DOMAIN pool.jobs : pool.results[j] # None

====
